---- MODULE Spec2Model ----
(***************************************************************************)
(* Authentication & security-telemetry engine of GenAI Sentinel.           *)
(*                                                                         *)
(*   backend/app/main.py              process start, import chain          *)
(*   backend/app/routers/auth.py      login / refresh / logout handlers    *)
(*   backend/app/config.py            settings                             *)
(*   backend/app/models.py            users, login_audit_logs,             *)
(*                                    security_events tables               *)
(*   simple_backend/main.py           /login                               *)
(*   simple_backend/latency_tracker.py  LatencyTracker                     *)
(*   simple_backend/security_metrics_db.py  security metrics               *)
(*   server.py                        scanning tool                        *)
(*                                                                         *)
(* app/security.py (verify_password, create_token_pair, decode_token,      *)
(* get_current_user) is imported by auth.py but is not part of the source  *)
(* tree; those operators are modelled from the specification's Token       *)
(* Service contract (section 4.1).                                         *)
(*                                                                         *)
(* The backend process starts by importing app.config and then, through    *)
(* the router, app.models; the handlers exist only once both imports have  *)
(* succeeded (startup = "running").  Every database round trip of the      *)
(* login, refresh and logout handlers is one step, so that other units of  *)
(* work (an administrator changing users.is_active, the clock) interleave  *)
(* where they can, and so that each commit can fail on its own.  Fields    *)
(* that no branch of the code reads (ip_address, user_agent, description,  *)
(* email, full_name, session_id) are left out of the rows.                 *)
(***************************************************************************)
EXTENDS Integers, Sequences, FiniteSets, TLC

(* ------------------------------ bounds -------------------------------- *)
\* The clock runs over 0..MaxTime.  A tick is one microsecond-of-second
\* class; UsPerSec ticks make a second class and SecPerDay second classes
\* make a UTC day (a scale model of 10^6 us and 86400 s).
MaxTime == 4
UsPerSec == 2
SecPerDay == 2
\* Requests sent, and administrative changes of users.is_active.
MaxRequests == 3
MaxAdminOps == 1
\* Logins sent under the default configuration, requests sent during a
\* start, and calls of the simple backend's login with tracker samples.
MaxDefaultRequests == 5
MaxStartupRequests == 1
MaxSimpleLogins == 3
MaxSimpleRecords == 2
\* Token lifetimes in ticks (JWT_ACCESS_TOKEN_EXPIRE_MINUTES <
\* JWT_REFRESH_TOKEN_EXPIRE_DAYS).
AccessTtl == 1
RefreshTtl == 3

(* ------------------------- program constants -------------------------- *)
DEFAULT_MAX_LOGIN_ATTEMPTS == 5
JWT_ACCESS_TOKEN_EXPIRE_MINUTES == 30
HTTP_200_OK == 200
HTTP_401_UNAUTHORIZED == 401
HTTP_403_FORBIDDEN == 403
HTTP_500_INTERNAL == 500
\* SQL NULL of a nullable integer column / of a nullable timestamp.
NULL == 0
NoTime == -1
NoReason == "<null>"

(* ------------------------------- time --------------------------------- *)
TicksPerDay == SecPerDay * UsPerSec
DayOf(t) == t \div TicksPerDay
UsOf(t) == t % UsPerSec
\* datetime.utcnow().replace(hour=0, minute=0, second=0): the microsecond
\* field is not replaced and keeps the value of the current instant.
ReplaceHMS0(t) == DayOf(t) * TicksPerDay + UsOf(t)

(* ------------------------------- data --------------------------------- *)
Workers == {"w1", "w2"}
SeqWorkers == {"w1"}
Usernames == {"alice", "bob"}
LoginNames == {"alice", "bob", "eve"}
Passwords == {"Admin@123", "helloworld@123"}

\* hash_password / verify_password of app.security: a slow salted hash and
\* its check.
hash_password(p) == <<"bcrypt", p>>
verify_password(p, h) == h = hash_password(p)

NoUser ==
  [id |-> NULL, username |-> "", password_hash |-> <<"bcrypt", "">>,
   role |-> "", is_active |-> FALSE, last_login |-> NoTime]
InitialUsers ==
  [u \in Usernames |->
     IF u = "alice"
     THEN [id |-> 1, username |-> "alice",
           password_hash |-> hash_password("Admin@123"),
           role |-> "admin", is_active |-> TRUE, last_login |-> NoTime]
     ELSE [id |-> 2, username |-> "bob",
           password_hash |-> hash_password("helloworld@123"),
           role |-> "user", is_active |-> FALSE, last_login |-> NoTime]]

NoToken ==
  [sub |-> "", user_id |-> NULL, role |-> "", type |-> "none",
   exp |-> NoTime, sig |-> "none"]
ForgedToken ==
  [sub |-> "alice", user_id |-> 1, role |-> "admin", type |-> "refresh",
   exp |-> MaxTime + RefreshTtl, sig |-> "forged"]
NoTokens == [access_token |-> NoToken, refresh_token |-> NoToken]

\* create_access_token / create_refresh_token / create_token_pair of
\* app.security: claims {sub, user_id, role, type, exp}, signed.
create_token(username, user_id, role, type, t) ==
  [sub |-> username, user_id |-> user_id, role |-> role, type |-> type,
   exp |-> t + (IF type = "access" THEN AccessTtl ELSE RefreshTtl),
   sig |-> "valid"]
create_token_pair(username, user_id, role, t) ==
  [access_token |-> create_token(username, user_id, role, "access", t),
   refresh_token |-> create_token(username, user_id, role, "refresh", t)]
\* decode_token of app.security: the claims, or InvalidToken when the
\* signature is bad, the structure malformed, or now > exp.
decode_ok(tok, t) == tok.sig = "valid" /\ t <= tok.exp

(* ----------------------------- responses ------------------------------ *)
Response(status, detail, tokens, expires_in) ==
  [status |-> status, detail |-> detail,
   access_token |-> tokens.access_token,
   refresh_token |-> tokens.refresh_token, expires_in |-> expires_in]
NoResponse == Response(NULL, "", NoTokens, NULL)
InvalidCredentials ==
  Response(HTTP_401_UNAUTHORIZED, "Invalid credentials", NoTokens, NULL)
AccountInactive ==
  Response(HTTP_403_FORBIDDEN, "Account is inactive", NoTokens, NULL)
InvalidTokenType ==
  Response(HTTP_401_UNAUTHORIZED, "Invalid token type", NoTokens, NULL)
UserNotFoundOrInactive ==
  Response(HTTP_401_UNAUTHORIZED, "User not found or inactive", NoTokens, NULL)
InvalidToken ==
  Response(HTTP_401_UNAUTHORIZED, "Could not validate credentials",
           NoTokens, NULL)
InternalServerError ==
  Response(HTTP_500_INTERNAL, "Internal server error", NoTokens, NULL)
TokenResponse(tokens) ==
  Response(HTTP_200_OK, "bearer", tokens, JWT_ACCESS_TOKEN_EXPIRE_MINUTES * 60)
LoggedOut ==
  Response(HTTP_200_OK, "Logged out successfully", NoTokens, NULL)

\* The HTTPException login raises for an unknown username (lines 154-158)
\* and for a wrong password (lines 208-212).
NotFoundRejection == InvalidCredentials
BadPasswordRejection == InvalidCredentials

(* ------------------- simple_backend/main.py: login -------------------- *)
\* The users init_db seeds (lines 54-70).
SimpleUsers ==
  [u \in {"admin", "welcome@123"} |->
     IF u = "admin" THEN hash_password("Admin@123")
     ELSE hash_password("helloworld@123")]
SimpleLoginNames == {"admin", "welcome@123", "eve"}
\* login, lines 143-173.
simple_login(username, password) ==
  IF username \notin DOMAIN SimpleUsers
  THEN [success |-> FALSE, message |-> "Invalid username or password"]
  ELSE IF ~verify_password(password, SimpleUsers[username])
  THEN [success |-> FALSE, message |-> "Invalid username or password"]
  ELSE [success |-> TRUE, message |-> "Login successful"]

(* ------------------------------- state -------------------------------- *)
VARIABLES
  now,                \* the clock (datetime.utcnow(), func.now())
  max_login_attempts, \* settings.MAX_LOGIN_ATTEMPTS
  users,              \* table users, by username
  login_audit_logs,   \* table login_audit_logs, in insertion order
  security_events,    \* table security_events, in insertion order
  issued,             \* tokens handed to clients so far
  pc,                 \* per worker: where its current request stands
  rq,                 \* per worker: the request's locals and last response
  attempts,           \* history: the requests clients have sent, in order
  n_admin,            \* administrative changes made
  refreshed           \* history: refresh tokens a refresh has accepted

authVars ==
  <<now, max_login_attempts, users, login_audit_logs, security_events,
    issued, pc, rq, attempts, n_admin, refreshed>>

\* One request as a client sent it.
Attempt(op, username, password, tok) ==
  [op |-> op, username |-> username, password |-> password, token |-> tok,
   t0 |-> now]

NoRequest ==
  [op |-> "none", username |-> "", password |-> "", token |-> NoToken,
   user |-> NoUser, recent_failures |-> 0, tokens |-> NoTokens,
   t0 |-> 0, audit_rows |-> {}, event_rows |-> {}, write_failed |-> FALSE,
   reused |-> FALSE, caught |-> NoResponse, resp |-> NoResponse]

(* ------------------------- the latency tracker ------------------------ *)
MaxWindow == 3
MaxRecords == 5
DEFAULT_SLA_THRESHOLD_MS == 50
\* A latency is a Python float.  A sample of the model is a whole number of
\* milliseconds plus a number of units of 2^-UlpExponent ms, the spacing of
\* the doubles from 32.0 up to 64.0: [ms |-> 50, ulps |-> 1] is the double
\* next above 50.0 (50.000000000000007).  Only samples below 64 ms carry
\* ulps.  A double has 52 bits below its leading one, and the leading bit
\* of the threshold 50.0 is that of 2^5.
UlpExponent ==
  52 - (CHOOSE n \in 0..10 : 2^n <= DEFAULT_SLA_THRESHOLD_MS
                               /\ DEFAULT_SLA_THRESHOLD_MS < 2^(n + 1))
Ms(k) == [ms |-> k, ulps |-> 0]
\* x < y and x <= y of two samples.
SampleLess(x, y) == x.ms < y.ms \/ (x.ms = y.ms /\ x.ulps < y.ulps)
SampleLeq(x, y) == x = y \/ SampleLess(x, y)
\* Samples offered to record_latency, around the SLA threshold.
Samples ==
  {Ms(10), Ms(DEFAULT_SLA_THRESHOLD_MS),
   [ms |-> DEFAULT_SLA_THRESHOLD_MS, ulps |-> 1], Ms(60)}

VARIABLES
  window_size,        \* LatencyTracker.window_size (the deque's maxlen)
  sla_threshold_ms,   \* LatencyTracker.sla_threshold_ms
  latencies_ms,       \* LatencyTracker._latencies_ms, oldest first
  total_requests,     \* LatencyTracker.total_requests
  sla_breaches,       \* LatencyTracker.sla_breaches
  recorded,           \* history: every sample recorded since construction
                      \* or the last reset, in arrival order
  lat_last,           \* history: the tracker's last operation and the
                      \* counters it found
  lt_pc,              \* per calling thread: position inside record_latency
  lt_loc              \* per calling thread: its sample and the value it
                      \* last loaded

latVars ==
  <<window_size, sla_threshold_ms, latencies_ms, total_requests,
    sla_breaches, recorded, lat_last>>
\* Threads calling the tracker.
LatThreads == {"t1", "t2"}
latThreadVars == <<lt_pc, lt_loc>>

(* -------------------- the security metrics aggregator ------------------ *)
\* Inputs of record_threat_detection.
MaxThreatCalls == 4
MaxCleanCalls == 2
ThreatTypes == {"DAN Attack", "Jailbreak", "Prompt Injection"}
Severities == {"critical", "high"}
\* Enough distinct threat types to overflow the summary's LIMIT.
ManyThreatTypes ==
  <<"T01", "T02", "T03", "T04", "T05", "T06", "T07", "T08", "T09", "T10",
    "T11">>
MaxManyCalls == 12
SUMMARY_LIMIT == 10
\* Threads (or processes) calling the aggregator.
MetThreads == {"m1", "m2"}

VARIABLES
  request_metrics,    \* the request_metrics row: total_requests,
                      \* threats_blocked, threats_flagged
  threat_vectors,     \* the threat_vectors rows, in rowid order
  metric_events,      \* the security_events rows of the metrics database
  calls,              \* history: the calls made since the last reset
  met_last,           \* history: the aggregator's last operation and what
                      \* it found
  rt_pc,              \* per calling thread: position inside
                      \* record_threat_detection
  rt_loc,             \* per calling thread: its blocked argument
  sm_pc,              \* per reading thread: position inside
                      \* get_security_metrics_summary
  sm_loc              \* per reading thread: the rows its SELECTs returned
                      \* and the summary it last returned

metVars ==
  <<request_metrics, threat_vectors, metric_events, calls, met_last>>
metThreadVars == <<rt_pc, rt_loc>>
sumVars == <<sm_pc, sm_loc>>
\* Threads reading the summary, and the summaries each asks for.
MetReaders == {"r1"}
MaxSummaryCalls == 1

(* ---------------------------- configuration --------------------------- *)
\* Values the environment, and the .env file of the working directory, can
\* give JWT_SECRET_KEY and DEBUG.  The value of DEBUG is a text (a sequence
\* of characters), since pydantic parses it.
Unset == "<unset>"
UnsetText == <<Unset>>
DEFAULT_JWT_SECRET_KEY == "dev-secret-key-change-in-production"
StrongSecret == "q7Zp1vK9mT4xW2sB8dF6hJ3nL5rY0cA"
SecretEnvValues ==
  {Unset, DEFAULT_JWT_SECRET_KEY, "", "secret", StrongSecret}
DebugEnvValues ==
  {UnsetText, <<>>,
   <<"t", "r", "u", "e">>,
   <<"f", "a", "l", "s", "e">>,
   <<"T", "r", "u", "e">>,
   <<"T", "R", "U", "E">>,
   <<"1">>,
   <<"0">>,
   <<"y", "e", "s">>,
   <<"o", "f", "f">>,
   <<"m", "a", "y", "b", "e">>,
   <<" ", "t", "r", "u", "e">>}
\* What a .env file holds in the runs explored.
SecretFileValues == {Unset, StrongSecret}
DebugFileValues == {UnsetText, <<"t", "r", "u", "e">>, <<"n", "o">>}

VARIABLES
  env,                \* the process environment: JWT_SECRET_KEY, DEBUG
  dotenv,             \* the .env file: JWT_SECRET_KEY, DEBUG
  startup,            \* the backend process: "importing" until app.config
                      \* has been imported, then "configured" or "aborted";
                      \* after app.models, "running" or "import_failed"
  meas                \* history: the last measure_security_check call

cfgVars == <<env, dotenv, startup>>
measVars == <<meas>>

(* ------------------- simple_backend/main.py: state -------------------- *)
VARIABLES
  simple_last         \* history: the last /login call and what it returned
simpleVars == <<simple_last>>

(* ------------------------- scanning tool: state ------------------------ *)
VARIABLES
  IS_TAINTED,         \* server.py line 12: the module-level taint flag
  srv_last,           \* history: the last tool call and what it returned
  srv_calls           \* history: the number of tool calls made
srvVars == <<IS_TAINTED, srv_last, srv_calls>>

nonAuthVars ==
  <<latVars, latThreadVars, metVars, metThreadVars, sumVars, cfgVars,
    measVars, simpleVars, srvVars>>

(* ------------------------- the audit recorder ------------------------- *)
\* log_login_attempt: one row, login_time from the server default now().
AuditRow(user_id, username, success, failure_reason, t) ==
  [user_id |-> user_id, username |-> username, success |-> success,
   failure_reason |-> failure_reason, login_time |-> t]
\* create_security_event: one row; failed_attempts is metadata's only key
\* (NULL when the event carries no metadata).
EventRow(event_type, severity, triggered_by, failed_attempts, t) ==
  [event_type |-> event_type, severity |-> severity,
   triggered_by |-> triggered_by, failed_attempts |-> failed_attempts,
   timestamp |-> t]

\* The brute-force query of login: failed rows of this exact username with
\* login_time >= utcnow().replace(hour=0, minute=0, second=0).
RecentFailures(logs, username, t) ==
  Cardinality({i \in 1..Len(logs) :
                 /\ logs[i].username = username
                 /\ logs[i].success = FALSE
                 /\ logs[i].login_time >= ReplaceHMS0(t)})

LookupUser(username) ==
  IF username \in DOMAIN users THEN users[username] ELSE NoUser
LookupUserById(user_id) ==
  IF \E u \in DOMAIN users : users[u].id = user_id
  THEN users[CHOOSE u \in DOMAIN users : users[u].id = user_id]
  ELSE NoUser

(* ------------------------------- login -------------------------------- *)
\* The three checks of login, in the order the code makes them.
LoginBranch(user, password) ==
  IF user = NoUser THEN "log_not_found"
  ELSE IF ~user.is_active THEN "log_inactive"
  ELSE IF ~verify_password(password, user.password_hash)
       THEN "log_bad_password"
  ELSE "commit_last_login"

\* login, lines 128-133, 136, 161, 183, 215: read the user row, decide.
LoginQueryUser(w, username, password) ==
  /\ startup = "running"
  /\ pc[w] = "idle"
  /\ LET user == LookupUser(username)
         branch == LoginBranch(user, password)
     IN /\ pc' = [pc EXCEPT ![w] = branch]
        /\ rq' = [rq EXCEPT ![w] =
                    [NoRequest EXCEPT
                       !.op = "login", !.username = username,
                       !.password = password, !.user = user, !.t0 = now,
                       !.tokens =
                         IF branch = "commit_last_login"
                         THEN create_token_pair(user.username, user.id,
                                                user.role, now)
                         ELSE NoTokens]]
  /\ attempts' =
       Append(attempts, Attempt("login", username, password, NoToken))
  /\ UNCHANGED <<now, max_login_attempts, users, login_audit_logs,
                 security_events, issued, n_admin, refreshed,
                 nonAuthVars>>

\* One log_login_attempt call of login: the row is committed.
WriteAudit(w, row, next) ==
  /\ login_audit_logs' = Append(login_audit_logs, row)
  /\ pc' = [pc EXCEPT ![w] = next]
  /\ rq' = [rq EXCEPT ![w].audit_rows = @ \cup {Len(login_audit_logs) + 1}]
  /\ UNCHANGED <<now, max_login_attempts, users, security_events, issued,
                 attempts, n_admin, refreshed,
                 nonAuthVars>>

\* One create_security_event call of login followed by the raise.
WriteEventAndRaise(w, row, resp) ==
  /\ security_events' = Append(security_events, row)
  /\ pc' = [pc EXCEPT ![w] = "idle"]
  /\ rq' = [rq EXCEPT ![w].event_rows = @ \cup {Len(security_events) + 1},
                      ![w].resp = resp]
  /\ UNCHANGED <<now, max_login_attempts, users, login_audit_logs, issued,
                 attempts, n_admin, refreshed,
                 nonAuthVars>>

\* lines 138-141
LogNotFound(w) ==
  /\ pc[w] = "log_not_found"
  /\ WriteAudit(w, AuditRow(NULL, rq[w].username, FALSE, "User not found",
                            now), "event_not_found")
\* lines 144-158
EventNotFound(w) ==
  /\ pc[w] = "event_not_found"
  /\ WriteEventAndRaise(w, EventRow("suspicious_login", "low", NULL, NULL,
                                    now), NotFoundRejection)
\* lines 162-165
LogInactive(w) ==
  /\ pc[w] = "log_inactive"
  /\ WriteAudit(w, AuditRow(rq[w].user.id, rq[w].username, FALSE,
                            "Account inactive", now), "event_inactive")
\* lines 167-180
EventInactive(w) ==
  /\ pc[w] = "event_inactive"
  /\ WriteEventAndRaise(w, EventRow("suspicious_login", "medium",
                                    rq[w].user.id, NULL, now),
                        AccountInactive)
\* lines 184-187
LogBadPassword(w) ==
  /\ pc[w] = "log_bad_password"
  /\ WriteAudit(w, AuditRow(rq[w].user.id, rq[w].username, FALSE,
                            "Invalid password", now), "count_failures")
\* lines 190-196, and 208-212 when the threshold is not reached
CountFailures(w) ==
  /\ pc[w] = "count_failures"
  /\ LET n == RecentFailures(login_audit_logs, rq[w].username, now)
     IN IF n >= max_login_attempts
        THEN /\ pc' = [pc EXCEPT ![w] = "event_brute_force"]
             /\ rq' = [rq EXCEPT ![w].recent_failures = n]
        ELSE /\ pc' = [pc EXCEPT ![w] = "idle"]
             /\ rq' = [rq EXCEPT ![w].recent_failures = n,
                                 ![w].resp = BadPasswordRejection]
  /\ UNCHANGED <<now, max_login_attempts, users, login_audit_logs,
                 security_events, issued, attempts, n_admin, refreshed,
                 nonAuthVars>>
\* The metadata of the brute_force_attempt event, line 205.
BruteForceMetadata(recent_failures) == recent_failures + 1
\* lines 197-212
EventBruteForce(w) ==
  /\ pc[w] = "event_brute_force"
  /\ WriteEventAndRaise(w, EventRow("brute_force_attempt", "high",
                                    rq[w].user.id,
                                    BruteForceMetadata(rq[w].recent_failures),
                                    now),
                        BadPasswordRejection)
\* The value written to users.last_login, line 218.
LastLoginValue(t) == t
\* The users table after the UPDATE of lines 218-219.
UsersAfterLogin(us, username, t) ==
  [us EXCEPT ![username].last_login = LastLoginValue(t)]
\* lines 218-219: UPDATE users SET last_login = utcnow() WHERE id = user.id
CommitLastLogin(w) ==
  /\ pc[w] = "commit_last_login"
  /\ users' = UsersAfterLogin(users, rq[w].user.username, now)
  /\ pc' = [pc EXCEPT ![w] = "log_success"]
  /\ UNCHANGED <<now, max_login_attempts, login_audit_logs, security_events,
                 issued, rq, attempts, n_admin, refreshed,
                 nonAuthVars>>
\* lines 222-233
LogSuccess(w) ==
  /\ pc[w] = "log_success"
  /\ login_audit_logs' =
       Append(login_audit_logs,
              AuditRow(rq[w].user.id, rq[w].username, TRUE, NoReason, now))
  /\ pc' = [pc EXCEPT ![w] = "idle"]
  /\ rq' = [rq EXCEPT ![w].audit_rows = @ \cup {Len(login_audit_logs) + 1},
                      ![w].resp = TokenResponse(rq[w].tokens)]
  /\ issued' = issued \cup {rq[w].tokens.access_token,
                            rq[w].tokens.refresh_token}
  /\ UNCHANGED <<now, max_login_attempts, users, security_events,
                 attempts, n_admin, refreshed,
                 nonAuthVars>>

(* --------------------------- store failures --------------------------- *)
\* A db.commit() raises: that of log_login_attempt (line 72) or
\* create_security_event (line 108) called by login, refresh_token (line
\* 284, inside the except block, so that the new exception replaces the
\* HTTPException) or logout (line 324), or that of line 219.  Nothing
\* catches it, the pending row or update is not stored, and main.py's
\* global_exception_handler (lines 101-116) answers 500.
CommitPcs ==
  {"log_not_found", "event_not_found", "log_inactive", "event_inactive",
   "log_bad_password", "event_brute_force", "commit_last_login",
   "log_success", "refresh_event", "logout_event"}
StoreWriteFails(w) ==
  /\ pc[w] \in CommitPcs
  /\ pc' = [pc EXCEPT ![w] = "idle"]
  /\ rq' = [rq EXCEPT ![w].write_failed = TRUE,
                      ![w].resp = InternalServerError]
  /\ UNCHANGED <<now, max_login_attempts, users, login_audit_logs,
                 security_events, issued, attempts, n_admin, refreshed,
                 nonAuthVars>>

(* ------------------------------ refresh ------------------------------- *)
\* refresh_token, lines 251-258: decode_token checks the token against the
\* clock as it stands at line 251, then the type is checked.  NoResponse:
\* neither check raises.
RefreshDecodeOutcome(tok, t) ==
  IF ~decode_ok(tok, t) THEN InvalidToken
  ELSE IF tok.type # "refresh" THEN InvalidTokenType
  ELSE NoResponse
\* lines 266-270: what the users row read at line 265 raises.
RefreshUserOutcome(user) ==
  IF user = NoUser \/ ~user.is_active THEN UserNotFoundOrInactive
  ELSE NoResponse
\* security_events after the handler, lines 282-292: every HTTPException
\* raised in the try block is logged as invalid_token before it is re-raised.
RefreshEvents(events, resp, t) ==
  IF resp.status = HTTP_200_OK THEN events
  ELSE Append(events, EventRow("invalid_token", "medium", NULL, NULL, t))
\* refresh_token, lines 247-263: the token is decoded; an HTTPException
\* is caught at line 282.
RefreshDecode(w, tok) ==
  /\ startup = "running"
  /\ pc[w] = "idle"
  /\ LET caught == RefreshDecodeOutcome(tok, now)
     IN /\ pc' = [pc EXCEPT ![w] = IF caught = NoResponse
                                   THEN "refresh_query"
                                   ELSE "refresh_event"]
        /\ rq' = [rq EXCEPT ![w] =
                    [NoRequest EXCEPT
                       !.op = "refresh", !.token = tok, !.t0 = now,
                       !.reused = tok \in refreshed,
                       !.caught = caught]]
  /\ attempts' = Append(attempts, Attempt("refresh", "", "", tok))
  /\ UNCHANGED <<now, max_login_attempts, users, login_audit_logs,
                 security_events, issued, n_admin, refreshed,
                 nonAuthVars>>
\* refresh_token, lines 265-270: the users row is read as the store holds
\* it by now.
RefreshQueryUser(w) ==
  /\ pc[w] = "refresh_query"
  /\ LET user == LookupUserById(rq[w].token.user_id)
         caught == RefreshUserOutcome(user)
     IN /\ pc' = [pc EXCEPT ![w] = IF caught = NoResponse
                                   THEN "refresh_issue"
                                   ELSE "refresh_event"]
        /\ rq' = [rq EXCEPT ![w].user = user, ![w].caught = caught]
  /\ UNCHANGED <<now, max_login_attempts, users, login_audit_logs,
                 security_events, issued, attempts, n_admin, refreshed,
                 nonAuthVars>>
\* refresh_token, lines 273-280: create_token_pair reads the clock anew
\* and the pair is returned.
RefreshIssue(w) ==
  /\ pc[w] = "refresh_issue"
  /\ LET tok == rq[w].token
         resp == TokenResponse(create_token_pair(tok.sub, tok.user_id,
                                                 tok.role, now))
     IN /\ rq' = [rq EXCEPT ![w].reused = tok \in refreshed,
                            ![w].resp = resp]
        /\ issued' = issued \cup {resp.access_token, resp.refresh_token}
        /\ refreshed' = refreshed \cup {tok}
  /\ pc' = [pc EXCEPT ![w] = "idle"]
  /\ UNCHANGED <<now, max_login_attempts, users, login_audit_logs,
                 security_events, attempts, n_admin,
                 nonAuthVars>>
\* refresh_token, lines 282-292: the caught HTTPException is logged by
\* create_security_event, then raised again.
RefreshLogInvalid(w) ==
  /\ pc[w] = "refresh_event"
  /\ security_events' = RefreshEvents(security_events, rq[w].caught, now)
  /\ pc' = [pc EXCEPT ![w] = "idle"]
  /\ rq' = [rq EXCEPT ![w].event_rows =
                        (Len(security_events) + 1)
                          .. Len(RefreshEvents(security_events,
                                               rq[w].caught, now)),
                      ![w].resp = rq[w].caught]
  /\ UNCHANGED <<now, max_login_attempts, users, login_audit_logs, issued,
                 attempts, n_admin, refreshed,
                 nonAuthVars>>

(* ------------------------------- logout ------------------------------- *)
\* get_current_user of app.security: the user an access token names.
get_current_user(tok) ==
  IF decode_ok(tok, now) /\ tok.type = "access"
  THEN LookupUserById(tok.user_id)
  ELSE NoUser
\* The row logout writes, lines 324-332.
LogoutEvent(current_user) ==
  EventRow("unusual_activity", "low", current_user.id, NULL, now)
\* logout, line 310: the get_current_user dependency resolves the token
\* to a users row, or rejects the request before the handler runs.
LogoutCurrentUser(w, tok) ==
  /\ startup = "running"
  /\ pc[w] = "idle"
  /\ LET current_user == get_current_user(tok)
         ok == current_user # NoUser
     IN /\ pc' = [pc EXCEPT ![w] = IF ok THEN "logout_event" ELSE "idle"]
        /\ rq' = [rq EXCEPT ![w] =
                    [NoRequest EXCEPT
                       !.op = "logout", !.token = tok, !.t0 = now,
                       !.user = current_user,
                       !.resp = IF ok THEN NoResponse ELSE InvalidToken]]
  /\ attempts' = Append(attempts, Attempt("logout", "", "", tok))
  /\ UNCHANGED <<now, max_login_attempts, users, login_audit_logs,
                 security_events, issued, n_admin, refreshed,
                 nonAuthVars>>
\* logout, lines 321-337: the event is committed and the message returned.
LogoutLogEvent(w) ==
  /\ pc[w] = "logout_event"
  /\ security_events' = Append(security_events, LogoutEvent(rq[w].user))
  /\ pc' = [pc EXCEPT ![w] = "idle"]
  /\ rq' = [rq EXCEPT ![w].event_rows = {Len(security_events) + 1},
                      ![w].resp = LoggedOut]
  /\ UNCHANGED <<now, max_login_attempts, users, login_audit_logs, issued,
                 attempts, n_admin, refreshed,
                 nonAuthVars>>

(* ---------------------- requests with no service ---------------------- *)
\* main.py lines 40 and 76: the application object is made and the router
\* registered after the imports of lines 10-12.  Once an import has ended
\* the process a request reaches no handler: no row is read or written
\* and no response is sent.
Unserved(w, req) ==
  /\ startup \in {"aborted", "import_failed"}
  /\ pc[w] = "idle"
  /\ rq' = [rq EXCEPT ![w] =
              [NoRequest EXCEPT
                 !.op = req.op, !.username = req.username,
                 !.password = req.password, !.token = req.token,
                 !.t0 = req.t0]]
  /\ attempts' = Append(attempts, req)
  /\ UNCHANGED <<now, max_login_attempts, users, login_audit_logs,
                 security_events, issued, pc, n_admin, refreshed,
                 nonAuthVars>>

(* ---------------------------- environment ----------------------------- *)
\* The clock advances.
Tick ==
  /\ now < MaxTime
  /\ now' = now + 1
  /\ UNCHANGED <<max_login_attempts, users, login_audit_logs,
                 security_events, issued, pc, rq, attempts, n_admin,
                 refreshed,
                 nonAuthVars>>

\* Another unit of work sets users.is_active (the core never writes it).
AdminSetActive(u, b) ==
  /\ users[u].is_active # b
  /\ users' = [users EXCEPT ![u].is_active = b]
  /\ n_admin' = n_admin + 1
  /\ UNCHANGED <<now, max_login_attempts, login_audit_logs, security_events,
                 issued, pc, rq, attempts, refreshed,
                 nonAuthVars>>

\* Another unit of work changes the role of a user.
Roles == {"admin", "user"}
AdminSetRole(u, role) ==
  /\ users[u].role # role
  /\ users' = [users EXCEPT ![u].role = role]
  /\ n_admin' = n_admin + 1
  /\ UNCHANGED <<now, max_login_attempts, login_audit_logs, security_events,
                 issued, pc, rq, attempts, refreshed,
                 nonAuthVars>>

(* ---------------------- latency tracker operations -------------------- *)
nonLatVars == <<authVars, metVars, metThreadVars, sumVars, cfgVars,
   measVars, simpleVars, srvVars>>

\* What the history keeps of an operation: its name and the counters it
\* found.
LatOp(op) ==
  [op |-> op, total_requests |-> total_requests,
   sla_breaches |-> sla_breaches, window |-> Len(latencies_ms)]
NoLatLocals == [x |-> Ms(0), loaded |-> 0]

\* LatencyTracker.__init__, lines 18-34.
LatInit(n) ==
  /\ window_size = n
  /\ sla_threshold_ms = DEFAULT_SLA_THRESHOLD_MS
  /\ latencies_ms = <<>>
  /\ total_requests = 0
  /\ sla_breaches = 0
  /\ recorded = <<>>
  /\ lat_last = [op |-> "init", total_requests |-> 0, sla_breaches |-> 0,
                 window |-> 0]
  /\ lt_pc = [t \in LatThreads |-> "idle"]
  /\ lt_loc = [t \in LatThreads |-> NoLatLocals]

\* (mutant) a full window refuses the new sample instead of evicting.
DequeAppend_KeepOldest(d, x, n) ==
  IF Len(d) >= n THEN d ELSE Append(d, x)
\* deque(maxlen=n).append(x): a full deque drops its oldest element; a
\* deque of maxlen 0 stores nothing.
DequeAppend(d, x, n) ==
  IF n = 0 THEN <<>>
  ELSE IF Len(d) >= n THEN Append(Tail(d), x)
  ELSE Append(d, x)

\* LatencyTracker.record_latency, lines 65-77, called by one thread at a
\* time.
RecordEffects(x) ==
  /\ latencies_ms' = DequeAppend(latencies_ms, x, window_size)
  /\ total_requests' = total_requests + 1
  /\ sla_breaches' = IF SampleLess(Ms(sla_threshold_ms), x)
                     THEN sla_breaches + 1
                     ELSE sla_breaches
  /\ recorded' = Append(recorded, x)
  /\ lat_last' = LatOp("record")
  /\ UNCHANGED <<window_size, sla_threshold_ms>>
\* A direct call of record_latency.
RecordLatency(x) ==
  /\ RecordEffects(x)
  /\ UNCHANGED <<latThreadVars, nonLatVars>>

\* What check_function hands back to measure_security_check.
CheckResults == {"safe", "blocked"}
Raised == "<raised>"
\* (mutant) the sample is recorded in a finally clause.
MeasureRecords_Always(raised) == TRUE
\* Whether measure_security_check gets to line 61: the call of line 54 is
\* not guarded, so an exception of check_function leaves the method there.
MeasureRecords(raised) == ~raised
\* The history record of one measure_security_check call.
MeasureOp(raised, result, returned, x) ==
  [called |-> TRUE, raised |-> raised, runs |-> 1, result |-> result,
   returned |-> returned, latency_ms |-> x,
   total_before |-> total_requests, window_before |-> latencies_ms,
   breaches_before |-> sla_breaches]
\* measure_security_check, lines 36-63, when check_function returns result
\* after x milliseconds.
MeasureReturns(result, x) ==
  /\ IF MeasureRecords(FALSE) THEN RecordEffects(x) ELSE UNCHANGED latVars
  /\ meas' = MeasureOp(FALSE, result, result, x)
  /\ UNCHANGED <<latThreadVars, authVars, metVars, metThreadVars, sumVars,
                 cfgVars, simpleVars, srvVars>>
\* measure_security_check when check_function raises after x milliseconds.
MeasureRaises(x) ==
  /\ IF MeasureRecords(TRUE) THEN RecordEffects(x) ELSE UNCHANGED latVars
  /\ meas' = MeasureOp(TRUE, Raised, Raised, x)
  /\ UNCHANGED <<latThreadVars, authVars, metVars, metThreadVars, sumVars,
                 cfgVars, simpleVars, srvVars>>

\* (mutant) reset that forgets the breach counter.
ResetCounters_KeepBreaches == [total_requests |-> 0,
                               sla_breaches |-> sla_breaches]
\* reset, lines 169-170: the counters after it.
ResetCounters == [total_requests |-> 0, sla_breaches |-> 0]

\* LatencyTracker.reset, lines 166-170.
ResetLatency ==
  /\ latencies_ms' = <<>>
  /\ total_requests' = ResetCounters.total_requests
  /\ sla_breaches' = ResetCounters.sla_breaches
  /\ recorded' = <<>>
  /\ lat_last' = LatOp("reset")
  /\ UNCHANGED <<window_size, sla_threshold_ms, latThreadVars, nonLatVars>>

(* ---------------------------- Python floats --------------------------- *)
\* Python floats are IEEE-754 doubles: a 53-bit mantissa m and an exponent
\* e stand for m * 2^e.  Mantissas and the exact intermediate results are
\* beyond TLC's integers and are kept as little-endian sequences of bytes.
Byte(a, j) == IF j \in 1..Len(a) THEN a[j] ELSE 0
Bit(a, i) == (Byte(a, (i \div 8) + 1) \div (2^(i % 8))) % 2
BitLen(a) ==
  IF \A j \in 1..Len(a) : a[j] = 0 THEN 0
  ELSE LET top == CHOOSE j \in 1..Len(a) :
                    a[j] # 0 /\ \A k \in (j + 1)..Len(a) : a[k] = 0
       IN 8 * (top - 1)
            + (CHOOSE n \in 1..8 : (2^(n - 1)) <= a[top] /\ a[top] < (2^n))
\* a \div 2^t.
ShiftRight(a, t) ==
  [j \in 1..Len(a) |->
     (Byte(a, j + (t \div 8)) \div (2^(t % 8)))
       + (Byte(a, j + (t \div 8) + 1) % (2^(t % 8))) * (2^(8 - (t % 8)))]
\* a + 1.
PlusOne(a) ==
  LET k == Cardinality({j \in 1..Len(a) : \A i \in 1..j : a[i] = 255})
  IN [j \in 1..(Len(a) + 1) |->
        IF j <= k THEN 0
        ELSE IF j = k + 1 THEN Byte(a, j) + 1 ELSE Byte(a, j)]
\* a * c for c < 256, with the carry out of byte j.
RECURSIVE TimesCarry(_, _, _)
TimesCarry(a, c, j) ==
  IF j = 0 THEN 0 ELSE (a[j] * c + TimesCarry(a, c, j - 1)) \div 256
Times(a, c) ==
  [j \in 1..(Len(a) + 1) |-> (Byte(a, j) * c + TimesCarry(a, c, j - 1)) % 256]
\* a / 2^t rounded to the nearest integer, a tie to the even one; sticky
\* tells that a was cut off from a slightly larger value.
RoundShift(a, t, sticky) ==
  LET kept == ShiftRight(a, t)
      guard == IF t >= 1 THEN Bit(a, t - 1) ELSE 0
      rest == sticky \/ \E i \in 0..(t - 2) : Bit(a, i) = 1
  IN IF guard = 1 /\ (rest \/ Bit(kept, 0) = 1) THEN PlusOne(kept) ELSE kept
\* The double nearest to a * 2^e, for a of more than 53 bits (round to
\* nearest, ties to even).
ToDouble(a, e, sticky) ==
  LET t == BitLen(a) - 53
      r == RoundShift(a, t, sticky)
  IN IF BitLen(r) = 54 THEN [m |-> ShiftRight(r, 1), e |-> e + t + 1]
     ELSE [m |-> r, e |-> e + t]
\* The remainder of n * 256^j by d: long division, a byte of the quotient
\* at a time.
RECURSIVE DivRem(_, _, _)
DivRem(n, d, j) ==
  IF j = 0 THEN n % d ELSE (DivRem(n, d, j - 1) * 256) % d
\* n / d of two ints (line 276), for 0 < n < 2^24 and 0 < d < 2^23: three
\* bytes of the integer part and eleven of the fraction, then rounded.
TrueDiv(n, d) ==
  LET places == 11
      q == [j \in 1..(places + 3) |->
              IF j <= places
              THEN (DivRem(n, d, places - j) * 256) \div d
              ELSE ((n \div d) \div (256^(j - places - 1))) % 256]
  IN ToDouble(q, -8 * places, DivRem(n, d, places) # 0)
\* x * 100 (line 276).
TimesHundred(x) == ToDouble(Times(x.m, 100), x.e, FALSE)
\* round(x, 2) of line 282: the exact value of the double, rounded to two
\* decimal places, a tie to the even digit.  The result is given as its
\* whole percents and its hundredths (80.0 is 80 and 0; 3.12 is 3 and 12);
\* the value in hundredths, lo + 65536 * hi, can be beyond TLC's integers.
RoundHundredths(x) ==
  LET r == RoundShift(Times(x.m, 100), -x.e, FALSE)
      lo == Byte(r, 1) + 256 * Byte(r, 2)
      hi == Byte(r, 3) + 256 * Byte(r, 4) + 65536 * Byte(r, 5)
      rest == (hi % 100) * 65536 + lo
  IN [percent |-> (hi \div 100) * 65536 + (rest \div 100),
      hundredths |-> rest % 100]

(* ------------------- latency tracker: derived statistics -------------- *)
RECURSIVE SumSeq(_)
SumSeq(q) == IF q = <<>> THEN 0 ELSE Head(q) + SumSeq(Tail(q))
\* The whole milliseconds and the ulps of a window, summed.
SumMs(q) == SumSeq([i \in 1..Len(q) |-> q[i].ms])
SumUlps(q) == SumSeq([i \in 1..Len(q) |-> q[i].ulps])

\* 0.0.
ZeroDouble == [m |-> <<>>, e |-> 0]
IsZero(x) == BitLen(x.m) = 0
\* The four bytes of an int k.
IntBytes(k) == [j \in 1..4 |-> (k \div (256^(j - 1))) % 256]
\* whole * 2^UlpExponent + ulps: an exact sum of samples, in ulps.
Scaled(whole, ulps) ==
  IntBytes(ulps) \o <<0>> \o Times(IntBytes(whole), 2^(UlpExponent - 40))
\* Long division of a by an int d, from the top byte down: the remainder
\* of the bytes j.. of a, and the quotient.
RECURSIVE RemFrom(_, _, _)
RemFrom(a, d, j) ==
  IF j > Len(a) THEN 0 ELSE (RemFrom(a, d, j + 1) * 256 + a[j]) % d
DivBytes(a, d) ==
  [j \in 1..Len(a) |-> (RemFrom(a, d, j + 1) * 256 + a[j]) \div d]
\* The double nearest to a * 2^e / d (round to nearest, ties to even), for
\* a of 48 bits or more and an int d below 2^11: two more bytes of the
\* quotient are worked out, the remainder is the sticky bit.
DivDouble(a, e, d) ==
  IF BitLen(a) = 0 THEN ZeroDouble
  ELSE ToDouble(DivBytes(<<0, 0>> \o a, d), e - 16,
                RemFrom(<<0, 0>> \o a, d, 1) # 0)
\* A sample as the double it is.
SampleDouble(x) == DivDouble(Scaled(x.ms, x.ulps), -UlpExponent, 1)
\* x <= k for a double x below 2^24 and an int k.
DoubleLeq(x, k) ==
  LET whole == ShiftRight(x.m, -x.e)
      w == Byte(whole, 1) + 256 * Byte(whole, 2) + 65536 * Byte(whole, 3)
      fraction == \E i \in 0..(-x.e - 1) : Bit(x.m, i) = 1
  IN w < k \/ (w = k /\ ~fraction)

\* sorted(...): the same samples in ascending order; position i holds the
\* sample with fewer than i samples below it and at least i at or below it.
sorted(q) ==
  [i \in 1..Len(q) |->
     CHOOSE x \in {q[j] : j \in 1..Len(q)} :
       /\ Cardinality({j \in 1..Len(q) : SampleLess(q[j], x)}) < i
       /\ i <= Cardinality({j \in 1..Len(q) : SampleLeq(q[j], x)})]

\* get_avg_latency_ms, lines 79-89: 0.0 on an empty window, else
\* statistics.mean, which adds the samples exactly and rounds the quotient
\* to the nearest double.
get_avg_latency_ms ==
  IF latencies_ms = <<>> THEN ZeroDouble
  ELSE DivDouble(Scaled(SumMs(latencies_ms), SumUlps(latencies_ms)),
                 -UlpExponent, Len(latencies_ms))

\* get_median_latency_ms, lines 91-101: 0.0 on an empty window, else
\* statistics.median (the middle element, or the float sum of the two
\* middle ones, halved).
get_median_latency_ms ==
  IF latencies_ms = <<>> THEN ZeroDouble
  ELSE LET srt == sorted(latencies_ms)
           n == Len(srt)
           lo == srt[n \div 2]
           hi == srt[(n \div 2) + 1]
           two == DivDouble(Scaled(lo.ms + hi.ms, lo.ulps + hi.ulps),
                            -UlpExponent, 1)
       IN IF n % 2 = 1 THEN SampleDouble(hi)
          ELSE [m |-> two.m, e |-> two.e - 1]

\* (mutant) the nearest-rank percentile, ceil(0.95 * len) - 1.
P95Index_NearestRank(len) == ((len * 95 + 99) \div 100) - 1
\* (mutant) the index rounded to the nearest integer instead of truncated.
P95Index_Rounded(len) == (len * 95 + 50) \div 100
\* line 114: int(len(sorted_latencies) * 0.95), 0-based.
P95Index(len) == (len * 95) \div 100

\* get_p95_latency_ms, lines 103-115.
get_p95_latency_ms ==
  IF latencies_ms = <<>> THEN Ms(0)
  ELSE LET sorted_latencies == sorted(latencies_ms)
           index == P95Index(Len(sorted_latencies))
       IN IF index < Len(sorted_latencies)
          THEN sorted_latencies[index + 1]
          ELSE sorted_latencies[Len(sorted_latencies)]

\* (mutant) the status follows the lifetime breach counter.
SlaStatusOf_ByBreaches(avg_latency) ==
  IF sla_breaches = 0 THEN "within_sla" ELSE "sla_breached"
\* line 125.
SlaStatusOf(avg_latency) ==
  IF DoubleLeq(avg_latency, sla_threshold_ms) THEN "within_sla"
  ELSE "sla_breached"
\* get_sla_status, lines 117-125.
get_sla_status == SlaStatusOf(get_avg_latency_ms)

\* calculate_percentage_impact, lines 127-141.
DEFAULT_BASELINE_LLM_LATENCY_MS == 2400
calculate_percentage_impact(baseline_llm_latency_ms) ==
  IF baseline_llm_latency_ms <= 0 \/ IsZero(get_avg_latency_ms)
  THEN ZeroDouble
  ELSE TimesHundred(DivDouble(get_avg_latency_ms.m, get_avg_latency_ms.e,
                              baseline_llm_latency_ms))

(* ---------------- latency tracker: concurrent callers ----------------- *)
\* record_latency, line 72: the append (one call into the deque).
RecAppend(t, x) ==
  /\ lt_pc[t] = "idle"
  /\ latencies_ms' = DequeAppend(latencies_ms, x, window_size)
  /\ recorded' = Append(recorded, x)
  /\ lat_last' = LatOp("record")
  /\ lt_loc' = [lt_loc EXCEPT ![t] = [x |-> x, loaded |-> 0]]
  /\ lt_pc' = [lt_pc EXCEPT ![t] = "load_total"]
  /\ UNCHANGED <<window_size, sla_threshold_ms, total_requests,
                 sla_breaches, nonLatVars>>

\* line 73, self.total_requests += 1: the read of the attribute.
RecLoadTotal(t) ==
  /\ lt_pc[t] = "load_total"
  /\ lt_loc' = [lt_loc EXCEPT ![t].loaded = total_requests]
  /\ lt_pc' = [lt_pc EXCEPT ![t] = "store_total"]
  /\ UNCHANGED <<latVars, nonLatVars>>

\* line 73: the write back; then the test of line 76.
RecStoreTotal(t) ==
  /\ lt_pc[t] = "store_total"
  /\ total_requests' = lt_loc[t].loaded + 1
  /\ lt_pc' = [lt_pc EXCEPT ![t] =
                 IF SampleLess(Ms(sla_threshold_ms), lt_loc[t].x)
                 THEN "load_breaches"
                 ELSE "idle"]
  /\ UNCHANGED <<window_size, sla_threshold_ms, latencies_ms, sla_breaches,
                 recorded, lat_last, lt_loc, nonLatVars>>

\* line 77, self.sla_breaches += 1: the read.
RecLoadBreaches(t) ==
  /\ lt_pc[t] = "load_breaches"
  /\ lt_loc' = [lt_loc EXCEPT ![t].loaded = sla_breaches]
  /\ lt_pc' = [lt_pc EXCEPT ![t] = "store_breaches"]
  /\ UNCHANGED <<latVars, nonLatVars>>

\* line 77: the write back.
RecStoreBreaches(t) ==
  /\ lt_pc[t] = "store_breaches"
  /\ sla_breaches' = lt_loc[t].loaded + 1
  /\ lt_pc' = [lt_pc EXCEPT ![t] = "idle"]
  /\ UNCHANGED <<window_size, sla_threshold_ms, latencies_ms,
                 total_requests, recorded, lat_last, lt_loc, nonLatVars>>

(* ----------------- security metrics aggregator: store ----------------- *)
AllThreatTypes ==
  ThreatTypes \cup {ManyThreatTypes[i] : i \in 1..Len(ManyThreatTypes)}
NoSeverity == "<none>"
NoCalls ==
  [by_type |-> [t \in AllThreatTypes |-> 0], blocked |-> 0, clean |-> 0,
   last_severity |-> [t \in AllThreatTypes |-> NoSeverity],
   seen_critical |-> [t \in AllThreatTypes |-> FALSE]]
MetOp(op) ==
  [op |-> op, rows |-> Len(threat_vectors),
   total_requests |-> request_metrics.total_requests]

\* A reader that has not asked for a summary yet.
NoSummaryLocals ==
  [metrics_row |-> [total_requests |-> 0, threats_blocked |-> 0,
                    threats_flagged |-> 0],
   top_rows |-> <<>>, started |-> 0, returned |-> FALSE,
   summary |-> [total_requests |-> 0, threats_blocked |-> 0,
                threats_flagged |-> 0,
                block_rate |-> [percent |-> 0, hundredths |-> 0],
                top_threat_vector |->
                  [name |-> "None detected", count |-> 0,
                   severity |-> "low"],
                all_threat_vectors |-> <<>>]]

\* init_security_metrics_db, lines 15-73: empty tables and one
\* request_metrics row of zeros.
MetInit ==
  /\ request_metrics =
       [total_requests |-> 0, threats_blocked |-> 0, threats_flagged |-> 0]
  /\ threat_vectors = <<>>
  /\ metric_events = <<>>
  /\ calls = NoCalls
  /\ met_last = [op |-> "init", rows |-> 0, total_requests |-> 0]
  /\ rt_pc = [m \in MetThreads |-> "idle"]
  /\ rt_loc = [m \in MetThreads |-> [blocked |-> FALSE]]
  /\ sm_pc = [r \in MetReaders |-> "idle"]
  /\ sm_loc = [r \in MetReaders |-> NoSummaryLocals]

\* The rowid-order position of the row of a threat type, 0 when absent.
RowOf(tv, threat_type) ==
  IF \E i \in 1..Len(tv) : tv[i].threat_type = threat_type
  THEN CHOOSE i \in 1..Len(tv) : tv[i].threat_type = threat_type
  ELSE 0

\* (mutant) an upsert that keeps the highest severity seen.
UpsertSeverity_Max(old, new) ==
  IF old = "critical" \/ new = "critical" THEN "critical" ELSE new
\* line 201: severity = ? (the value passed in).
UpsertSeverity(old, new) == new

\* (mutant) an upsert that does not count repeated detections.
UpsertCount_Stuck(old) == old
\* line 199: count = count + 1.
UpsertCount(old) == old + 1

\* record_threat_detection, lines 195-204: INSERT ... ON CONFLICT
\* (threat_type) DO UPDATE.
Upsert(tv, threat_type, severity) ==
  LET i == RowOf(tv, threat_type)
  IN IF i = 0
     THEN Append(tv, [threat_type |-> threat_type, count |-> 1,
                      severity |-> severity])
     ELSE [tv EXCEPT ![i] =
             [threat_type |-> threat_type,
              count |-> UpsertCount(tv[i].count),
              severity |-> UpsertSeverity(tv[i].severity, severity)]]

\* (mutant) every counted request is also counted as a blocked threat.
increment_total_requests_AndBlocked(rm) ==
  [rm EXCEPT !.total_requests = @ + 1, !.threats_blocked = @ + 1]
\* increment_total_requests, lines 154-165.
increment_total_requests(rm) ==
  [rm EXCEPT !.total_requests = @ + 1]
\* (mutant) a blocked threat is counted as flagged as well.
increment_threats_blocked_AndFlagged(rm) ==
  [rm EXCEPT !.threats_blocked = @ + 1, !.threats_flagged = @ + 1]
\* increment_threats_blocked, lines 168-179.
increment_threats_blocked(rm) ==
  [rm EXCEPT !.threats_blocked = @ + 1]

\* The history of a record_threat_detection call.
CallsAfterThreat(threat_type, severity, blocked) ==
  [calls EXCEPT !.by_type[threat_type] = @ + 1,
                !.blocked = IF blocked THEN @ + 1 ELSE @,
                !.last_severity[threat_type] = severity,
                !.seen_critical[threat_type] = @ \/ severity = "critical"]

(* --------------- security metrics aggregator: operations -------------- *)
nonMetVars == <<authVars, latVars, latThreadVars, sumVars, cfgVars,
   measVars, simpleVars, srvVars>>

\* record_threat_detection, lines 182-210, called by one caller at a time:
\* the upsert, then the two counter increments.
RecordThreat(threat_type, severity, blocked) ==
  /\ threat_vectors' = Upsert(threat_vectors, threat_type, severity)
  /\ request_metrics' =
       IF blocked
       THEN increment_threats_blocked(
              increment_total_requests(request_metrics))
       ELSE increment_total_requests(request_metrics)
  /\ calls' = CallsAfterThreat(threat_type, severity, blocked)
  /\ met_last' = MetOp("record_threat")
  /\ UNCHANGED <<metric_events, metThreadVars, nonMetVars>>

\* record_clean_request, security_metrics_routes.py lines 117-129.
RecordCleanRequest ==
  /\ request_metrics' = increment_total_requests(request_metrics)
  /\ calls' = [calls EXCEPT !.clean = @ + 1]
  /\ met_last' = MetOp("record_request")
  /\ UNCHANGED <<threat_vectors, metric_events, metThreadVars, nonMetVars>>

\* (mutant) a reset that leaves the threat_vectors rows in place.
ResetVectors_Keep(tv) == tv
\* line 306: DELETE FROM threat_vectors.
ResetVectors(tv) == <<>>

\* reset_metrics, lines 293-312.
ResetMetrics ==
  /\ request_metrics' =
       [total_requests |-> 0, threats_blocked |-> 0, threats_flagged |-> 0]
  /\ threat_vectors' = ResetVectors(threat_vectors)
  /\ metric_events' = <<>>
  /\ calls' = NoCalls
  /\ met_last' = MetOp("reset")
  /\ UNCHANGED <<metThreadVars, nonMetVars>>

\* record_threat_detection by concurrent callers: lines 195-205, the upsert
\* and its commit.
RtUpsert(m, threat_type, severity, blocked) ==
  /\ rt_pc[m] = "idle"
  /\ threat_vectors' = Upsert(threat_vectors, threat_type, severity)
  /\ calls' = CallsAfterThreat(threat_type, severity, blocked)
  /\ met_last' = MetOp("record_threat")
  /\ rt_loc' = [rt_loc EXCEPT ![m] = [blocked |-> blocked]]
  /\ rt_pc' = [rt_pc EXCEPT ![m] = "inc_total"]
  /\ UNCHANGED <<request_metrics, metric_events, nonMetVars>>

\* line 208: increment_total_requests(), a transaction of its own.
RtIncTotal(m) ==
  /\ rt_pc[m] = "inc_total"
  /\ request_metrics' = increment_total_requests(request_metrics)
  /\ rt_pc' = [rt_pc EXCEPT ![m] =
                 IF rt_loc[m].blocked THEN "inc_blocked" ELSE "idle"]
  /\ UNCHANGED <<threat_vectors, metric_events, calls, met_last, rt_loc,
                 nonMetVars>>

\* lines 209-210: increment_threats_blocked(), a transaction of its own.
RtIncBlocked(m) ==
  /\ rt_pc[m] = "inc_blocked"
  /\ request_metrics' = increment_threats_blocked(request_metrics)
  /\ rt_pc' = [rt_pc EXCEPT ![m] = "idle"]
  /\ UNCHANGED <<threat_vectors, metric_events, calls, met_last, rt_loc,
                 nonMetVars>>

(* ---------------- security metrics aggregator: summary ---------------- *)
\* ORDER BY count DESC over idx_threat_vectors_count: descending count,
\* rows of equal count in rowid order.
RECURSIVE InsertByCountDesc(_, _)
InsertByCountDesc(q, r) ==
  IF q = <<>> THEN <<r>>
  ELSE IF Head(q).count >= r.count
       THEN <<Head(q)>> \o InsertByCountDesc(Tail(q), r)
       ELSE <<r>> \o q
RECURSIVE OrderByCountDesc(_)
OrderByCountDesc(tv) ==
  IF tv = <<>> THEN <<>>
  ELSE InsertByCountDesc(OrderByCountDesc(SubSeq(tv, 1, Len(tv) - 1)),
                         tv[Len(tv)])
\* LIMIT n.
Limit(q, n) == IF Len(q) <= n THEN q ELSE SubSeq(q, 1, n)

\* block_rate of lines 276 and 282.
BlockRate(threats_blocked, total) ==
  IF total > 0 /\ threats_blocked > 0
  THEN RoundHundredths(TimesHundred(TrueDiv(threats_blocked, total)))
  ELSE [percent |-> 0, hundredths |-> 0]

\* lines 247-254.
NoTopThreat == [name |-> "None detected", count |-> 0, severity |-> "low"]

\* The rows of the SELECT of lines 239-244 (LIMIT 1) and of lines 257-262
\* (LIMIT 10).
SelectTop(tv) == Limit(OrderByCountDesc(tv), 1)
SelectAll(tv) == Limit(OrderByCountDesc(tv), SUMMARY_LIMIT)

\* lines 227-290: the dictionary built from the rows of the three SELECTs.
SummaryOf(metrics_row, top_rows, all_rows) ==
  [total_requests |-> metrics_row.total_requests,
   threats_blocked |-> metrics_row.threats_blocked,
   threats_flagged |-> metrics_row.threats_flagged,
   block_rate |-> BlockRate(metrics_row.threats_blocked,
                            metrics_row.total_requests),
   top_threat_vector |->
     IF top_rows = <<>> THEN NoTopThreat
     ELSE [name |-> top_rows[1].threat_type, count |-> top_rows[1].count,
           severity |-> top_rows[1].severity],
   all_threat_vectors |-> all_rows]

\* get_security_metrics_summary, lines 213-290, when nothing is committed
\* between its SELECTs (one caller at a time).
get_security_metrics_summary ==
  SummaryOf(request_metrics, SelectTop(threat_vectors),
            SelectAll(threat_vectors))

\* get_security_metrics_summary beside other callers: each SELECT reads
\* what is committed when it runs.
nonSumVars ==
  <<authVars, latVars, latThreadVars, metVars, metThreadVars, cfgVars,
    measVars, simpleVars, srvVars>>
\* lines 220-235: SELECT ... FROM request_metrics.
SummarySelectMetrics(r) ==
  /\ sm_pc[r] = "idle"
  /\ sm_loc' = [sm_loc EXCEPT ![r].metrics_row = request_metrics,
                              ![r].started = @ + 1,
                              ![r].returned = FALSE]
  /\ sm_pc' = [sm_pc EXCEPT ![r] = "select_top"]
  /\ UNCHANGED nonSumVars
\* lines 238-254: SELECT ... FROM threat_vectors ... LIMIT 1.
SummarySelectTop(r) ==
  /\ sm_pc[r] = "select_top"
  /\ sm_loc' = [sm_loc EXCEPT ![r].top_rows = SelectTop(threat_vectors)]
  /\ sm_pc' = [sm_pc EXCEPT ![r] = "select_all"]
  /\ UNCHANGED nonSumVars
\* lines 257-290: SELECT ... FROM threat_vectors ... LIMIT 10, and return.
SummarySelectAll(r) ==
  /\ sm_pc[r] = "select_all"
  /\ sm_loc' = [sm_loc EXCEPT
                  ![r].summary = SummaryOf(sm_loc[r].metrics_row,
                                           sm_loc[r].top_rows,
                                           SelectAll(threat_vectors)),
                  ![r].returned = TRUE]
  /\ sm_pc' = [sm_pc EXCEPT ![r] = "idle"]
  /\ UNCHANGED nonSumVars

(* ----------------------- configuration: startup ----------------------- *)
\* pydantic's parsing of a bool field from a string: the twelve spellings
\* below, compared without regard to ASCII case and without stripping
\* anything; every other string is a validation error.
Lower(text) ==
  LET UpperCase ==
        <<"A", "B", "C", "D", "E", "F", "G", "H", "I", "J", "K", "L", "M",
          "N", "O", "P", "Q", "R", "S", "T", "U", "V", "W", "X", "Y", "Z">>
      LowerCase ==
        <<"a", "b", "c", "d", "e", "f", "g", "h", "i", "j", "k", "l", "m",
          "n", "o", "p", "q", "r", "s", "t", "u", "v", "w", "x", "y", "z">>
      LowerChar(c) ==
        IF \E i \in 1..Len(UpperCase) : UpperCase[i] = c
        THEN LowerCase[CHOOSE i \in 1..Len(UpperCase) : UpperCase[i] = c]
        ELSE c
  IN [i \in 1..Len(text) |-> LowerChar(text[i])]
ParseBool(text) ==
  LET BoolTrueSpellings ==
        {<<"1">>, <<"o", "n">>, <<"t">>,
         <<"t", "r", "u", "e">>, <<"y">>, <<"y", "e", "s">>}
      BoolFalseSpellings ==
        {<<"0">>, <<"o", "f", "f">>, <<"f">>,
         <<"f", "a", "l", "s", "e">>, <<"n">>, <<"n", "o">>}
  IN IF Lower(text) \in BoolTrueSpellings THEN "true"
     ELSE IF Lower(text) \in BoolFalseSpellings THEN "false"
     ELSE "error"

\* Settings(), config.py lines 10-51: a field is the environment's value
\* when the variable is set, else the .env file's value when the file sets
\* it (lines 44-46), else its default; DEBUG is then parsed as a bool, and a
\* value that does not parse makes Settings() raise a ValidationError.
Settings(e, f) ==
  LET debug == IF e.DEBUG # UnsetText THEN ParseBool(e.DEBUG)
               ELSE IF f.DEBUG # UnsetText THEN ParseBool(f.DEBUG)
               ELSE "false"
  IN [JWT_SECRET_KEY |-> IF e.JWT_SECRET_KEY # Unset THEN e.JWT_SECRET_KEY
                         ELSE IF f.JWT_SECRET_KEY # Unset
                              THEN f.JWT_SECRET_KEY
                         ELSE DEFAULT_JWT_SECRET_KEY,
      DEBUG |-> debug = "true",
      error |-> debug = "error"]

\* config.py lines 54-55: ValueError when the key is the default string and
\* DEBUG is off.
StartupCheck(settings) ==
  IF settings.JWT_SECRET_KEY = DEFAULT_JWT_SECRET_KEY /\ ~settings.DEBUG
  THEN "aborted" ELSE "configured"

\* Import of app.config at process start, lines 50-55: the import fails when
\* Settings() raises (line 51) or the check of lines 54-55 does.
LoadSettings ==
  /\ startup = "importing"
  /\ startup' = IF Settings(env, dotenv).error THEN "aborted"
                ELSE StartupCheck(Settings(env, dotenv))
  /\ UNCHANGED <<env, dotenv, authVars, latVars, latThreadVars, metVars,
                 metThreadVars, sumVars, measVars, simpleVars, srvVars>>

\* models.py: the attributes each mapped class assigns a Column to.
MappedColumns ==
  [User |-> {"id", "username", "password_hash", "role", "is_active",
             "created_at", "last_login", "email", "full_name"},
   LoginAuditLog |-> {"id", "user_id", "username", "login_time",
                      "ip_address", "user_agent", "success",
                      "failure_reason", "session_id"},
   SecurityEvent |-> {"id", "event_type", "severity", "description",
                      "triggered_by", "ip_address", "user_agent",
                      "timestamp", "metadata"}]

\* main.py lines 11-12: once app.config is loaded the router is imported,
\* and auth.py line 11 imports app.models.  A class derived from
\* declarative_base() (database.py line 28) keeps its MetaData under the
\* attribute metadata, and the declarative scan raises InvalidRequestError
\* for a class that assigns a Column to that name; an exception in a class
\* body ends the import, so no application object and no handler exists.
ImportModels ==
  LET ReservedAttributes == {"metadata"}
      ClassDefinitionRaises(cls) ==
        MappedColumns[cls] \cap ReservedAttributes # {}
  IN /\ startup = "configured"
     /\ startup' =
          IF \E cls \in DOMAIN MappedColumns : ClassDefinitionRaises(cls)
          THEN "import_failed" ELSE "running"
     /\ UNCHANGED <<env, dotenv, authVars, latVars, latThreadVars, metVars,
                    metThreadVars, sumVars, measVars, simpleVars, srvVars>>

NoMeasure ==
  [called |-> FALSE, raised |-> FALSE, runs |-> 0, result |-> "<none>",
   returned |-> "<none>", latency_ms |-> Ms(0), total_before |-> 0,
   window_before |-> <<>>, breaches_before |-> 0]
\* The backend process after a start with a secret of its own: the import
\* of app.models has ended it.
BackendInit ==
  /\ env = [JWT_SECRET_KEY |-> StrongSecret, DEBUG |-> UnsetText]
  /\ dotenv = [JWT_SECRET_KEY |-> Unset, DEBUG |-> UnsetText]
  /\ startup = "import_failed"
  /\ meas = NoMeasure

(* ---------------------- simple_backend: /login ------------------------ *)
NoSimpleLogin ==
  [calls |-> 0, username |-> "", password |-> "",
   response |-> [success |-> FALSE, message |-> ""], total_before |-> 0]
SimpleInit == simple_last = NoSimpleLogin
\* POST /login of simple_backend/main.py, lines 143-173: the response is
\* returned; no line of the route calls the latency tracker.
SimpleLogin(username, password) ==
  /\ simple_last' =
       [calls |-> simple_last.calls + 1, username |-> username,
        password |-> password, response |-> simple_login(username, password),
        total_before |-> total_requests]
  /\ UNCHANGED <<authVars, latVars, latThreadVars, metVars, metThreadVars,
                 sumVars, cfgVars, measVars, srvVars>>

(* --------------------------- specification ---------------------------- *)
(* ---------------------------- scanning tool ---------------------------- *)
\* Texts are sequences of Unicode code points; Python's str.strip() removes
\* from both ends every character str.isspace() holds for: tab to carriage
\* return, the separators 0x1c-0x1f, space, NEL, no-break space and the
\* Unicode spaces and line separators.
Whitespace ==
  (9..13) \cup (28..32) \cup {133, 160, 5760} \cup (8192..8202)
    \cup {8232, 8233, 8239, 8287, 12288}
\* The characters of the texts explored: space, line feed, no-break space,
\* em space and the letter x.
Chars == {32, 10, 160, 8195, 120}
MaxTextLen == 3
Texts == UNION {[1..n -> Chars] : n \in 0..MaxTextLen}
RECURSIVE LStrip(_)
LStrip(text) ==
  IF text = <<>> \/ Head(text) \notin Whitespace THEN text
  ELSE LStrip(Tail(text))
RECURSIVE RStrip(_)
RStrip(text) ==
  IF text = <<>> \/ text[Len(text)] \notin Whitespace THEN text
  ELSE RStrip(SubSeq(text, 1, Len(text) - 1))
strip(text) == RStrip(LStrip(text))
\* line 58: not text or not text.strip()
IsBlankText(text) == text = <<>> \/ strip(text) = <<>>

MOCK_DB ==
  [n \in {"Alice", "Bob", "Caveman"} |->
     IF n = "Alice" THEN "555-0199"
     ELSE IF n = "Bob" THEN "SECRET-DATA" ELSE "999-0000"]
Names == DOMAIN MOCK_DB \cup {"Mallory"}
Callers == {"c1", "c2"}
MaxServerCalls == 3

\* What the tools return.
SafeReply == [msg |-> "safe", data |-> ""]
WarningReply ==
  [msg |-> "Warning: Malicious prompt injection detected. Access to sensitive data is now restricted.",
   data |-> ""]
DeniedReply ==
  [msg |-> "Access denied: session is tainted due to prior malicious prompt. Cannot return sensitive data.",
   data |-> ""]
UnknownNameReply(name) == [msg |-> "Unknown name: ", data |-> name]
\* The Anonymize scanner's output for a stored value.
RedactedReply(raw) == [msg |-> "redacted", data |-> raw]

NoServerCall ==
  [op |-> "init", caller |-> "", text |-> <<>>, name |-> "",
   scanned |-> FALSE, is_valid |-> TRUE, tainted_before |-> FALSE,
   reply |-> SafeReply]
\* server.py line 12 at import.
ServerInit ==
  /\ IS_TAINTED = FALSE
  /\ srv_last = NoServerCall
  /\ srv_calls = 0

\* (mutant) the flag follows the last scan: a valid text clears it.
TaintAfterScan_LastScan(tainted, is_valid) == ~is_valid
\* lines 62-64: the flag after a scan that judged the text.
TaintAfterScan(tainted, is_valid) == tainted \/ ~is_valid

\* scan_content, lines 51-65; is_valid is the verdict of the
\* PromptInjection scanner for a text that is not blank.
ScanContent(caller, text, is_valid) ==
  /\ srv_calls < MaxServerCalls
  /\ LET blank == IsBlankText(text)
     IN /\ IS_TAINTED' = IF blank THEN IS_TAINTED
                         ELSE TaintAfterScan(IS_TAINTED, is_valid)
        /\ srv_last' =
             [op |-> "scan_content", caller |-> caller, text |-> text,
              name |-> "", scanned |-> ~blank,
              is_valid |-> IF blank THEN TRUE ELSE is_valid,
              tainted_before |-> IS_TAINTED,
              reply |-> IF blank \/ is_valid THEN SafeReply
                        ELSE WarningReply]
  /\ srv_calls' = srv_calls + 1
  /\ UNCHANGED <<authVars, latVars, latThreadVars, metVars, metThreadVars,
                 sumVars, cfgVars, measVars, simpleVars>>

\* get_sensitive_data, lines 68-82.
GetSensitiveData(caller, name) ==
  /\ srv_calls < MaxServerCalls
  /\ srv_last' =
       [op |-> "get_sensitive_data", caller |-> caller, text |-> <<>>,
        name |-> name, scanned |-> FALSE, is_valid |-> TRUE,
        tainted_before |-> IS_TAINTED,
        reply |-> IF IS_TAINTED THEN DeniedReply
                  ELSE IF name \notin DOMAIN MOCK_DB
                       THEN UnknownNameReply(name)
                  ELSE RedactedReply(MOCK_DB[name])]
  /\ srv_calls' = srv_calls + 1
  /\ UNCHANGED <<IS_TAINTED, authVars, latVars, latThreadVars, metVars,
                 metThreadVars, sumVars, cfgVars, measVars, simpleVars>>

vars ==
  <<authVars, latVars, latThreadVars, metVars, metThreadVars, sumVars,
    cfgVars, measVars, simpleVars, srvVars>>

AuthInit ==
  /\ now = 0
  /\ users = InitialUsers
  /\ login_audit_logs = <<>>
  /\ security_events = <<>>
  /\ issued = {}
  /\ pc = [w \in Workers |-> "idle"]
  /\ rq = [w \in Workers |-> NoRequest]
  /\ attempts = <<>>
  /\ n_admin = 0
  /\ refreshed = {}

LoginStep(w) ==
  \/ LogNotFound(w)
  \/ EventNotFound(w)
  \/ LogInactive(w)
  \/ EventInactive(w)
  \/ LogBadPassword(w)
  \/ CountFailures(w)
  \/ EventBruteForce(w)
  \/ CommitLastLogin(w)
  \/ LogSuccess(w)

\* The backend process from its start, under any environment.
Init ==
  /\ AuthInit
  /\ max_login_attempts = DEFAULT_MAX_LOGIN_ATTEMPTS
  /\ LatInit(MaxWindow)
  /\ MetInit
  /\ meas = NoMeasure
  /\ ServerInit
  /\ SimpleInit
  /\ startup = "importing"
  /\ \E k \in SecretEnvValues, d \in DebugEnvValues :
       env = [JWT_SECRET_KEY |-> k, DEBUG |-> d]
  /\ \E k \in SecretFileValues, d \in DebugFileValues :
       dotenv = [JWT_SECRET_KEY |-> k, DEBUG |-> d]

PresentableTokens == issued \cup {ForgedToken}
\* The requests a client can send.
Requests ==
  {Attempt("login", u, p, NoToken) : u \in LoginNames, p \in Passwords}
    \cup {Attempt("refresh", "", "", tok) : tok \in PresentableTokens}
    \cup {Attempt("logout", "", "", tok) : tok \in PresentableTokens}

Next ==
  \/ LoadSettings
  \/ ImportModels
  \/ /\ Len(attempts) < MaxStartupRequests
     /\ \E w \in SeqWorkers, req \in Requests : Unserved(w, req)
  \/ /\ Len(attempts) < MaxStartupRequests
     /\ \E w \in SeqWorkers, u \in LoginNames, p \in Passwords :
          LoginQueryUser(w, u, p)
  \/ \E w \in SeqWorkers : LoginStep(w)
  \/ /\ Len(attempts) < MaxStartupRequests
     /\ \E w \in SeqWorkers, tok \in PresentableTokens :
          RefreshDecode(w, tok)
  \/ \E w \in SeqWorkers : RefreshQueryUser(w)
  \/ \E w \in SeqWorkers : RefreshIssue(w)
  \/ \E w \in SeqWorkers : RefreshLogInvalid(w)
  \/ /\ Len(attempts) < MaxStartupRequests
     /\ \E w \in SeqWorkers, tok \in PresentableTokens :
          LogoutCurrentUser(w, tok)
  \/ \E w \in SeqWorkers : LogoutLogEvent(w)
  \/ \E w \in SeqWorkers : StoreWriteFails(w)
  \/ Tick
  \/ /\ n_admin < MaxAdminOps
     /\ \E u \in Usernames, b \in BOOLEAN : AdminSetActive(u, b)
  \/ /\ n_admin < MaxAdminOps
     /\ \E u \in Usernames, role \in Roles : AdminSetRole(u, role)

Spec == Init /\ [][Next]_vars

\* No start of the backend gets as far as serving: models.py line 94 ends
\* every import of app.models.
NeverRunning == startup # "running"

\* The steps of Next the process gets to take: the import of app.models
\* ends it before a handler exists.
NextStartup ==
  \/ LoadSettings
  \/ ImportModels
  \/ /\ Len(attempts) < MaxStartupRequests
     /\ \E w \in SeqWorkers, req \in Requests : Unserved(w, req)

SpecStartup == Init /\ [][NextStartup]_vars

\* The backend after a start with a secret of its own, under the requests
\* clients send it.
InitDefault ==
  /\ AuthInit
  /\ max_login_attempts = DEFAULT_MAX_LOGIN_ATTEMPTS
  /\ LatInit(MaxWindow)
  /\ MetInit
  /\ BackendInit
  /\ ServerInit
  /\ SimpleInit

\* A run of logins for one existing active account.
NextDefault ==
  \/ /\ Len(attempts) < MaxDefaultRequests
     /\ \E w \in SeqWorkers, p \in Passwords :
          Unserved(w, Attempt("login", "alice", p, NoToken))
  \/ Tick

SpecDefault == InitDefault /\ [][NextDefault]_vars

NextUnserved ==
  \/ /\ Len(attempts) < MaxRequests
     /\ \E w \in Workers, req \in Requests : Unserved(w, req)
  \/ Tick

SpecUnserved == InitDefault /\ [][NextUnserved]_vars

\* The two logins of the repository under the requests clients send them:
\* /auth/login of the backend and /login of simple_backend.
NextLogins ==
  \/ /\ Len(attempts) < MaxRequests
     /\ \E w \in SeqWorkers, u \in LoginNames, p \in Passwords :
          Unserved(w, Attempt("login", u, p, NoToken))
  \/ /\ simple_last.calls < MaxSimpleLogins
     /\ \E u \in SimpleLoginNames, p \in Passwords : SimpleLogin(u, p)

SpecLogins == InitDefault /\ [][NextLogins]_vars

\* The login of simple_backend next to the tracker's other callers.
NextSimpleLogin ==
  \/ /\ simple_last.calls < MaxSimpleLogins
     /\ \E u \in SimpleLoginNames, p \in Passwords : SimpleLogin(u, p)
  \/ /\ Len(recorded) < MaxSimpleRecords
     /\ \E x \in Samples : RecordLatency(x)

SpecSimpleLogin == InitDefault /\ [][NextSimpleLogin]_vars

\* A latency tracker of any capacity, on its own.
InitLatency ==
  /\ AuthInit
  /\ max_login_attempts = DEFAULT_MAX_LOGIN_ATTEMPTS
  /\ \E n \in 0..MaxWindow : LatInit(n)
  /\ MetInit
  /\ BackendInit
  /\ ServerInit
  /\ SimpleInit

NextLatency ==
  \/ /\ Len(recorded) < MaxRecords
     /\ \E x \in Samples : RecordLatency(x)
  \/ ResetLatency

SpecLatency == InitLatency /\ [][NextLatency]_vars

\* The tracker used through measure_security_check as well as directly.
MaxMeasureRecords == 3
NextMeasure ==
  \/ /\ Len(recorded) < MaxMeasureRecords
     /\ \E x \in Samples : RecordLatency(x)
  \/ /\ Len(recorded) < MaxMeasureRecords
     /\ \E r \in CheckResults, x \in Samples : MeasureReturns(r, x)
  \/ \E x \in Samples : MeasureRaises(x)
  \/ ResetLatency

SpecMeasure == InitLatency /\ [][NextMeasure]_vars
\* The tracker fed the samples 10, 20, ..., 1000, the same descending, or
\* a plateau of repeated values, into the default window and a smaller one.
RampLen == 100
RampWindowSmall == 20
DEFAULT_WINDOW_SIZE == 100
RampStarts == {Ms(10), Ms(500), Ms(1000)}
RampSample(rec) ==
  IF rec[1] = Ms(10) THEN Ms(10 * (Len(rec) + 1))
  ELSE IF rec[1] = Ms(1000) THEN Ms(1000 - 10 * Len(rec))
  ELSE Ms(500 + 10 * (Len(rec) % 3))

InitRamp ==
  /\ AuthInit
  /\ max_login_attempts = DEFAULT_MAX_LOGIN_ATTEMPTS
  /\ \E n \in {RampWindowSmall, DEFAULT_WINDOW_SIZE} : LatInit(n)
  /\ MetInit
  /\ BackendInit
  /\ ServerInit
  /\ SimpleInit

NextRamp ==
  /\ Len(recorded) < RampLen
  /\ \E x \in (IF recorded = <<>> THEN RampStarts
               ELSE {RampSample(recorded)}) : RecordLatency(x)

SpecRamp == InitRamp /\ [][NextRamp]_vars

\* The tracker called by two threads at once.
MaxConcRecords == 3
InitLatencyConc ==
  /\ AuthInit
  /\ max_login_attempts = DEFAULT_MAX_LOGIN_ATTEMPTS
  /\ \E n \in 1..MaxWindow : LatInit(n)
  /\ MetInit
  /\ BackendInit
  /\ ServerInit
  /\ SimpleInit

NextLatencyConc ==
  \/ /\ Len(recorded) < MaxConcRecords
     /\ \E t \in LatThreads, x \in Samples : RecAppend(t, x)
  \/ \E t \in LatThreads : RecLoadTotal(t)
  \/ \E t \in LatThreads : RecStoreTotal(t)
  \/ \E t \in LatThreads : RecLoadBreaches(t)
  \/ \E t \in LatThreads : RecStoreBreaches(t)

SpecLatencyConc == InitLatencyConc /\ [][NextLatencyConc]_vars

\* The security metrics aggregator, one caller at a time.
RECURSIVE SumOver(_, _)
SumOver(f, S) ==
  IF S = {} THEN 0
  ELSE LET x == CHOOSE y \in S : TRUE IN f[x] + SumOver(f, S \ {x})
ThreatCallsMade == SumOver(calls.by_type, AllThreatTypes)

InitMetrics ==
  /\ AuthInit
  /\ max_login_attempts = DEFAULT_MAX_LOGIN_ATTEMPTS
  /\ LatInit(MaxWindow)
  /\ MetInit
  /\ BackendInit
  /\ ServerInit
  /\ SimpleInit

NextMetrics ==
  \/ /\ ThreatCallsMade < MaxThreatCalls
     /\ \E t \in ThreatTypes, sev \in Severities, b \in BOOLEAN :
          RecordThreat(t, sev, b)
  \/ /\ calls.clean < MaxCleanCalls
     /\ RecordCleanRequest
  \/ ResetMetrics

SpecMetrics == InitMetrics /\ [][NextMetrics]_vars

\* The aggregator fed more distinct threat types than the summary's LIMIT;
\* the types are interchangeable, so new ones arrive in one fixed order.
NextManyTypes ==
  /\ ThreatCallsMade < MaxManyCalls
  /\ \E t \in {threat_vectors[i].threat_type : i \in 1..Len(threat_vectors)}
             \cup (IF Len(threat_vectors) < Len(ManyThreatTypes)
                   THEN {ManyThreatTypes[Len(threat_vectors) + 1]}
                   ELSE {}) :
       RecordThreat(t, "high", TRUE)

SpecManyTypes == InitMetrics /\ [][NextManyTypes]_vars

\* The aggregator called by two callers at once.
MaxConcThreatCalls == 3
NextMetricsConc ==
  \/ /\ ThreatCallsMade < MaxConcThreatCalls
     /\ \E m \in MetThreads, t \in ThreatTypes, sev \in Severities,
           b \in BOOLEAN : RtUpsert(m, t, sev, b)
  \/ \E m \in MetThreads : RtIncTotal(m)
  \/ \E m \in MetThreads : RtIncBlocked(m)

SpecMetricsConc == InitMetrics /\ [][NextMetricsConc]_vars

\* The aggregator called by one caller while a second resets it and a
\* third reads the summary.
MaxResetThreatCalls == 2
ResetCallers == {"m1"}
ResetThreatTypes == {"DAN Attack", "Jailbreak"}
NextMetricsReset ==
  \/ /\ ThreatCallsMade < MaxResetThreatCalls
     /\ \E m \in ResetCallers, t \in ResetThreatTypes, b \in BOOLEAN :
          RtUpsert(m, t, "critical", b)
  \/ \E m \in ResetCallers : RtIncTotal(m)
  \/ \E m \in ResetCallers : RtIncBlocked(m)
  \/ ResetMetrics
  \/ \E r \in MetReaders :
       /\ sm_loc[r].started < MaxSummaryCalls
       /\ SummarySelectMetrics(r)
  \/ \E r \in MetReaders : SummarySelectTop(r)
  \/ \E r \in MetReaders : SummarySelectAll(r)

SpecMetricsReset == InitMetrics /\ [][NextMetricsReset]_vars

\* The scanning tool called by several clients of one process.
NextServer ==
  \/ \E c \in Callers, text \in Texts, is_valid \in BOOLEAN :
       ScanContent(c, text, is_valid)
  \/ \E c \in Callers, name \in Names : GetSensitiveData(c, name)

SpecServer == InitDefault /\ [][NextServer]_vars

(* ============================== claims ================================ *)
\* A worker's last request, once it is over.
LoginDone(w) == pc[w] = "idle" /\ rq[w].op = "login"
\* What a login request presents, by the users table.
NamesNoUser(r) == r.username \notin DOMAIN users
NamesInactive(r) ==
  r.username \in DOMAIN users /\ ~users[r.username].is_active
PresentsWrongPassword(r) ==
  /\ r.username \in DOMAIN users
  /\ users[r.username].is_active
  /\ ~verify_password(r.password, users[r.username].password_hash)
PresentsValidCredentials(r) ==
  /\ r.username \in DOMAIN users
  /\ users[r.username].is_active
  /\ verify_password(r.password, users[r.username].password_hash)

(* ------------------------------- C1 ----------------------------------- *)
\* A login that names an account of the users table with a password that
\* is not the account's.
ExistsWithWrongPassword(r) ==
  /\ r.username \in DOMAIN users
  /\ ~verify_password(r.password, users[r.username].password_hash)

\* C1: a login for a username that does not exist and a login for a
\* username that exists with a wrong password get the same caller-visible
\* rejection, status and message: 401 "Invalid credentials" from the
\* backend's /auth/login, success = false with "Invalid username or
\* password" from simple_backend's /login.
C1_EnumerationResistance ==
  /\ \A w \in Workers :
       /\ LoginDone(w)
       /\ NamesNoUser(rq[w]) \/ ExistsWithWrongPassword(rq[w])
       => /\ rq[w].resp = NotFoundRejection
          /\ rq[w].resp = BadPasswordRejection
  /\ /\ simple_last.calls > 0
     /\ \/ simple_last.username \notin DOMAIN SimpleUsers
        \/ ~verify_password(simple_last.password,
                            SimpleUsers[simple_last.username])
     => simple_last.response =
          [success |-> FALSE, message |-> "Invalid username or password"]

(* ------------------------------- C2 ----------------------------------- *)
\* The requests sent so far are all logins for one existing active account
\* with a wrong password, sent on one UTC day.
RunOfWrongPasswords ==
  /\ attempts # <<>>
  /\ \A i \in 1..Len(attempts) :
       /\ attempts[i].op = "login"
       /\ attempts[i].username = attempts[1].username
       /\ PresentsWrongPassword(attempts[i])
       /\ DayOf(attempts[i].t0) = DayOf(attempts[1].t0)
\* The rows of security_events that are brute_force_attempt events.
BruteForceRows(events) ==
  {e \in 1..Len(events) : events[e].event_type = "brute_force_attempt"}

\* C2: with the threshold at its default 5 and no earlier failure that UTC
\* day, in a run of wrong-password logins for one existing active user the
\* attempts 1 to 4 emit no brute_force_attempt event and the 5th emits
\* exactly one, of severity high, whose metadata.failed_attempts is 5.
C2_FifthFailureReportsFive ==
  /\ max_login_attempts = DEFAULT_MAX_LOGIN_ATTEMPTS
  /\ login_audit_logs = <<>>
  /\ RunOfWrongPasswords
  /\ \A w \in Workers : pc[w] = "idle"
  => LET bf == BruteForceRows(security_events)
     IN /\ Len(attempts) < DEFAULT_MAX_LOGIN_ATTEMPTS => bf = {}
        /\ Len(attempts) = DEFAULT_MAX_LOGIN_ATTEMPTS =>
             /\ Cardinality(bf) = 1
             /\ \A e \in bf :
                  /\ security_events[e].severity = "high"
                  /\ security_events[e].failed_attempts
                       = DEFAULT_MAX_LOGIN_ATTEMPTS

(* ------------------------------- C4 ----------------------------------- *)
\* C4: login returns a token pair only when the username resolved to a
\* user, that user was active and the password verified against the stored
\* hash; every other attempt ends rejected (401 Invalid credentials or 403
\* Account is inactive) and issues no token pair.
C4_TokensOnlyAfterAllThreeChecks ==
  \A w \in Workers :
    LoginDone(w) =>
      /\ rq[w].resp.status = HTTP_200_OK => PresentsValidCredentials(rq[w])
      /\ ~PresentsValidCredentials(rq[w]) =>
           /\ rq[w].resp \in {InvalidCredentials, AccountInactive}
           /\ rq[w].tokens = NoTokens
           /\ rq[w].resp.access_token = NoToken
           /\ rq[w].resp.refresh_token = NoToken

(* ------------------------------- C10 ---------------------------------- *)
Min(a, b) == IF a <= b THEN a ELSE b
\* The last n elements of a sequence, in order.
LastN(q, n) == SubSeq(q, Len(q) - n + 1, Len(q))

\* C10: for a tracker of capacity N, after any n record calls since
\* construction or the last reset the window holds exactly the most recent
\* min(n, N) samples in arrival order, its length never exceeds N, and
\* total_requests equals n whatever N is.
C10_WindowHoldsMostRecent ==
  /\ latencies_ms = LastN(recorded, Min(Len(recorded), window_size))
  /\ Len(latencies_ms) <= window_size
  /\ total_requests = Len(recorded)

\* More samples than the capacity have been recorded, so the oldest ones
\* have been evicted.
C10_Witness ==
  /\ window_size >= 2
  /\ Len(recorded) >= window_size + 2
  /\ Len(latencies_ms) = window_size
  /\ recorded[1] # recorded[Len(recorded)]

(* ------------------------------- C11 ---------------------------------- *)
\* How many samples of a window lie below x, and at or below x.
CountBelow(d, x) == Cardinality({i \in 1..Len(d) : SampleLess(d[i], x)})
CountAtMost(d, x) == Cardinality({i \in 1..Len(d) : SampleLeq(d[i], x)})

\* C11: for every non-empty window of length L the p95 statistic is the
\* element at 0-based index floor(0.95 * L) of the window sorted ascending
\* (a sample of the window with at most that many samples below it and
\* more than that many at or below it); for the 100 samples 10, 20, ...,
\* 1000 it is the element at sorted index 95, which is 960 (not 950, the
\* one at 94, nor 970, the one at 96).
C11_P95IsSortedIndexFloor ==
  /\ latencies_ms # <<>> =>
       LET k == (95 * Len(latencies_ms)) \div 100
           p == get_p95_latency_ms
       IN /\ \E i \in 1..Len(latencies_ms) : latencies_ms[i] = p
          /\ CountBelow(latencies_ms, p) <= k
          /\ k < CountAtMost(latencies_ms, p)
  /\ latencies_ms = [i \in 1..100 |-> Ms(10 * i)]
       => get_p95_latency_ms = Ms(10 * (95 + 1))

\* The hundred samples 10, 20, ..., 1000 fill the default window.
C11_Witness ==
  /\ window_size = DEFAULT_WINDOW_SIZE
  /\ Len(latencies_ms) = 100
  /\ latencies_ms[1] = Ms(10)
  /\ latencies_ms[100] = Ms(1000)
  /\ get_p95_latency_ms = Ms(960)

(* ------------------------------- C12 ---------------------------------- *)
\* The samples now in the window, from the history.
CurrentWindow == LastN(recorded, Min(Len(recorded), window_size))
\* The mean of a window, as a real number, is at most k milliseconds.
ExactMeanAtMost(win, k) ==
  \/ win = <<>>
  \/ SumMs(win) < k * Len(win)
  \/ SumMs(win) = k * Len(win) /\ SumUlps(win) = 0
\* The mean of a window is above k milliseconds by at most half the
\* spacing of the doubles at k, or not above it.
MeanWithinHalfUlpOf(win, k) ==
  \/ win = <<>>
  \/ SumMs(win) < k * Len(win)
  \/ SumMs(win) = k * Len(win) /\ 2 * SumUlps(win) <= Len(win)

\* C12 as the specification states it: the SLA status is "within_sla"
\* exactly when the mean of the samples now in the window (0 for an empty
\* window) is at most the SLA threshold, and "sla_breached" otherwise.
C12_SlaStatusFollowsExactMean ==
  get_sla_status = IF ExactMeanAtMost(CurrentWindow, sla_threshold_ms)
                   THEN "within_sla" ELSE "sla_breached"

\* C12, corrected: the SLA status is "within_sla" exactly when the mean of
\* the samples now in the window (0 for an empty window), rounded to the
\* nearest double as statistics.mean returns it, is at most the SLA
\* threshold, that is when the mean is not above the threshold by more
\* than half the spacing of the doubles there; it is "sla_breached"
\* otherwise, whatever the lifetime breach counter says and whatever
\* single samples are.
C12_SlaStatusFollowsRoundedMean ==
  get_sla_status = IF MeanWithinHalfUlpOf(CurrentWindow, sla_threshold_ms)
                   THEN "within_sla" ELSE "sla_breached"

\* Breaches have been counted, a sample above the threshold is still in
\* the window and the mean of the window is above the threshold, yet the
\* status is "within_sla": the mean rounds to the threshold.
C12_Witness ==
  /\ sla_breaches > 0
  /\ \E i \in 1..Len(latencies_ms) :
       SampleLess(Ms(sla_threshold_ms), latencies_ms[i])
  /\ Len(latencies_ms) >= 2
  /\ ~ExactMeanAtMost(latencies_ms, sla_threshold_ms)
  /\ get_sla_status = "within_sla"

(* ------------------------------- C13 ---------------------------------- *)
\* C13: a reset of the latency tracker, from any state, leaves the window
\* empty, total_requests and sla_breaches 0, mean, median, p95 and
\* percentage impact 0, the status "within_sla", and the window capacity
\* and the SLA threshold as they were.
C13_ResetZeroesLatencyTracker ==
  [][lat_last'.op = "reset" =>
       /\ latencies_ms' = <<>>
       /\ total_requests' = 0
       /\ sla_breaches' = 0
       /\ IsZero(get_avg_latency_ms')
       /\ IsZero(get_median_latency_ms')
       /\ get_p95_latency_ms' = Ms(0)
       /\ IsZero(
            calculate_percentage_impact(DEFAULT_BASELINE_LLM_LATENCY_MS)')
       /\ get_sla_status' = "within_sla"
       /\ window_size' = window_size
       /\ sla_threshold_ms' = sla_threshold_ms]_vars

\* A reset has just cleared a tracker whose window was full, which had
\* evicted samples and had counted breaches.
C13_Witness ==
  /\ lat_last.op = "reset"
  /\ lat_last.sla_breaches > 0
  /\ lat_last.total_requests > window_size
  /\ lat_last.window = window_size
  /\ window_size > 0
  /\ latencies_ms = <<>>

(* ------------------------------- C14 ---------------------------------- *)
\* C14: a reset of the security metrics aggregator, from any state, leaves
\* total_requests, threats_blocked and threats_flagged 0, no threat vector
\* rows and no security event rows, and a summary with block rate 0, a top
\* threat of count 0 and an empty list of vectors.
C14_ResetZeroesSecurityMetrics ==
  [][met_last'.op = "reset" =>
       /\ request_metrics'.total_requests = 0
       /\ request_metrics'.threats_blocked = 0
       /\ request_metrics'.threats_flagged = 0
       /\ threat_vectors' = <<>>
       /\ metric_events' = <<>>
       /\ get_security_metrics_summary'.block_rate
            = [percent |-> 0, hundredths |-> 0]
       /\ get_security_metrics_summary'.top_threat_vector.count = 0
       /\ get_security_metrics_summary'.all_threat_vectors = <<>>]_vars

\* A reset has just cleared an aggregator that held several vectors and
\* counted requests.
C14_Witness ==
  /\ met_last.op = "reset"
  /\ met_last.rows >= 2
  /\ met_last.total_requests >= 3
  /\ threat_vectors = <<>>

(* ------------------------------- C15 ---------------------------------- *)
\* The count of the row of a threat type, 0 when it has no row.
VectorCount(threat_type) ==
  IF RowOf(threat_vectors, threat_type) = 0 THEN 0
  ELSE threat_vectors[RowOf(threat_vectors, threat_type)].count

\* C15: after any sequence of record-threat and record-clean-request calls
\* since the last reset, total_requests is the number of calls of either
\* kind, threats_blocked the number of record-threat calls with blocked
\* true, each vector's count the number of record-threat calls of its type,
\* and the summary's top threat a vector of maximum count; after DAN Attack
\* twice and Jailbreak once, all blocked: top DAN Attack with count 2,
\* total 3, blocked 3, block rate 100.0.
C15_CountersMatchCalls ==
  LET summary == get_security_metrics_summary
  IN /\ summary.total_requests = ThreatCallsMade + calls.clean
     /\ summary.threats_blocked = calls.blocked
     /\ \A t \in AllThreatTypes : VectorCount(t) = calls.by_type[t]
     /\ IF threat_vectors = <<>>
        THEN summary.top_threat_vector = NoTopThreat
        ELSE /\ VectorCount(summary.top_threat_vector.name)
                  = summary.top_threat_vector.count
             /\ \A t \in AllThreatTypes :
                  VectorCount(t) <= summary.top_threat_vector.count
     /\ ( /\ calls.by_type["DAN Attack"] = 2
          /\ calls.by_type["Jailbreak"] = 1
          /\ ThreatCallsMade = 3
          /\ calls.blocked = 3
          /\ calls.clean = 0 )
        => /\ summary.top_threat_vector.name = "DAN Attack"
           /\ summary.top_threat_vector.count = 2
           /\ summary.total_requests = 3
           /\ summary.threats_blocked = 3
           /\ summary.block_rate = [percent |-> 100, hundredths |-> 0]

\* DAN Attack was recorded twice and Jailbreak once, all blocked.
C15_Witness ==
  /\ calls.by_type["DAN Attack"] = 2
  /\ calls.by_type["Jailbreak"] = 1
  /\ ThreatCallsMade = 3
  /\ calls.blocked = 3
  /\ calls.clean = 0
  /\ request_metrics.total_requests = 3

(* ------------------------------- C16 ---------------------------------- *)
\* C16: for every threat type the vector's severity is the one passed in
\* the most recent record-threat call for that type (not the highest ever
\* seen), the first call creates the row with count 1, and there is never
\* more than one row per threat type.
C16_SeverityIsMostRecent ==
  /\ \A i \in 1..Len(threat_vectors) :
       /\ threat_vectors[i].severity
            = calls.last_severity[threat_vectors[i].threat_type]
       /\ calls.by_type[threat_vectors[i].threat_type] = 1
            => threat_vectors[i].count = 1
  /\ \A t \in AllThreatTypes :
       calls.by_type[t] >= 1 => RowOf(threat_vectors, t) # 0
  /\ \A i, j \in 1..Len(threat_vectors) :
       threat_vectors[i].threat_type = threat_vectors[j].threat_type
         => i = j

\* A type was recorded as critical and later as high: its row says high.
C16_Witness ==
  \E i \in 1..Len(threat_vectors) :
    /\ calls.seen_critical[threat_vectors[i].threat_type]
    /\ threat_vectors[i].severity = "high"
    /\ threat_vectors[i].count >= 2

(* ------------------------------- C17 ---------------------------------- *)
\* The security event rows recorded with an event type.
EventsOfType(threat_type) ==
  {e \in 1..Len(metric_events) : metric_events[e].event_type = threat_type}

\* C17: in every reachable state, for every threat type, the vector's
\* count is the number of security event rows recorded with that event
\* type.
C17_VectorCountEqualsEvents ==
  \A t \in AllThreatTypes :
    VectorCount(t) = Cardinality(EventsOfType(t))

(* ------------------------------- C18 ---------------------------------- *)
\* C18: the summary returns every existing threat vector, ordered by count
\* descending, however many distinct threat types were recorded.
C18_SummaryListsEveryVector ==
  LET listed == get_security_metrics_summary.all_threat_vectors
  IN /\ Len(listed) = Len(threat_vectors)
     /\ \A i \in 1..Len(threat_vectors) :
          \E j \in 1..Len(listed) : listed[j] = threat_vectors[i]
     /\ \A i, j \in 1..Len(listed) :
          i < j => listed[i].count >= listed[j].count

(* ------------------------------- C19 ---------------------------------- *)
\* C19: once k record calls made by concurrent callers have all completed,
\* with no reset in between, total_requests is k, sla_breaches the number
\* of those samples above the threshold, and the window holds min(k, N)
\* samples.
C19_NoLostUpdate ==
  (\A t \in LatThreads : lt_pc[t] = "idle") =>
    /\ total_requests = Len(recorded)
    /\ sla_breaches =
         Cardinality({i \in 1..Len(recorded) :
                        SampleLess(Ms(sla_threshold_ms), recorded[i])})
    /\ Len(latencies_ms) = Min(Len(recorded), window_size)

(* ------------------------------- C20 ---------------------------------- *)
RECURSIVE SumOfCounts(_)
SumOfCounts(rows) ==
  IF rows = <<>> THEN 0 ELSE Head(rows).count + SumOfCounts(Tail(rows))

\* C20: no summary, taken at any point, shows a threat vector count that
\* includes a detection whose total_requests increment is not yet visible:
\* the sum of the vector counts is at most total_requests in every
\* observable state.
C20_VectorCountsWithinTotal ==
  LET summary == get_security_metrics_summary
  IN SumOfCounts(summary.all_threat_vectors) <= summary.total_requests

(* ------------------------------- C21 ---------------------------------- *)
\* Signing secrets nobody should run with: none, the published default,
\* the empty string, a dictionary word.
InsecureSecrets == {DEFAULT_JWT_SECRET_KEY, "", "secret"}

\* C21: in a non-debug deployment startup aborts with a configuration
\* error whenever the token signing secret is missing or insecure (a
\* secret that neither the environment nor the .env file sets is the
\* default string): with such a secret the import of app.config is the
\* last thing the process does.
C21_NoInsecureSecretOutsideDebug ==
  /\ ~Settings(env, dotenv).error
  /\ ~Settings(env, dotenv).DEBUG
  /\ Settings(env, dotenv).JWT_SECRET_KEY \in InsecureSecrets
  => startup \in {"importing", "aborted"}

(* ------------------------------- C22 ---------------------------------- *)
\* The one audit row and the one event row of an attempt say this.
AuditSays(r, user_id, reason) ==
  /\ Cardinality(r.audit_rows) = 1
  /\ \A i \in r.audit_rows :
       /\ login_audit_logs[i].success = FALSE
       /\ login_audit_logs[i].failure_reason = reason
       /\ login_audit_logs[i].user_id = user_id
       /\ login_audit_logs[i].username = r.username
EventSays(r, event_type, severity) ==
  \E e \in r.event_rows :
    /\ security_events[e].event_type = event_type
    /\ security_events[e].severity = severity

\* C22: a login attempt is classified by the first failing check in the
\* order user lookup, account check, password check: an unknown user gives
\* audit reason "User not found" with a null user id, a low
\* suspicious_login event and "Invalid credentials"; an inactive user
\* gives "Account inactive", a medium suspicious_login event and "Account
\* is inactive" whatever the password; an active user with a wrong
\* password gives "Invalid password" and "Invalid credentials".
C22_ClassifiedByFirstFailingCheck ==
  \A w \in Workers :
    LoginDone(w) =>
      /\ NamesNoUser(rq[w]) =>
           /\ AuditSays(rq[w], NULL, "User not found")
           /\ EventSays(rq[w], "suspicious_login", "low")
           /\ Cardinality(rq[w].event_rows) = 1
           /\ rq[w].resp = InvalidCredentials
      /\ NamesInactive(rq[w]) =>
           /\ AuditSays(rq[w], users[rq[w].username].id, "Account inactive")
           /\ EventSays(rq[w], "suspicious_login", "medium")
           /\ Cardinality(rq[w].event_rows) = 1
           /\ rq[w].resp = AccountInactive
      /\ PresentsWrongPassword(rq[w]) =>
           /\ AuditSays(rq[w], users[rq[w].username].id, "Invalid password")
           /\ rq[w].resp = InvalidCredentials

(* ------------------------------- C28 ---------------------------------- *)
\* A whole record_latency call made while no other call is in progress.
WholeRecordStep ==
  /\ Len(recorded') = Len(recorded) + 1
  /\ \A t \in LatThreads : lt_pc[t] = "idle" /\ lt_pc'[t] = "idle"

\* C28: record increments sla_breaches exactly when the sample is strictly
\* greater than the SLA threshold (a sample equal to the threshold is not a
\* breach); in every reachable state 0 <= sla_breaches <= total_requests;
\* and neither counter decreases in a step that is not a reset.
C28_BreachesCountedAndBounded ==
  /\ [](0 <= sla_breaches /\ sla_breaches <= total_requests)
  /\ [][/\ WholeRecordStep =>
             sla_breaches' =
               IF SampleLess(Ms(sla_threshold_ms), recorded'[Len(recorded')])
               THEN sla_breaches + 1 ELSE sla_breaches
        /\ lat_last'.op # "reset" =>
             /\ total_requests' >= total_requests
             /\ sla_breaches' >= sla_breaches]_vars

(* ------------------------------- C29 ---------------------------------- *)
\* C29: a call of measure_security_check that returns has run the operation
\* once, returned the operation's result unchanged and recorded exactly one
\* sample (total_requests grows by 1); when the operation raises, the error
\* reaches the caller and the window and both counters are left unchanged.
C29_MeasureRecordsOnceOrNotAtAll ==
  [][meas' # meas =>
       /\ meas'.called /\ meas'.runs = 1
       /\ ~meas'.raised =>
            /\ meas'.returned = meas'.result
            /\ meas'.result \in CheckResults
            /\ total_requests' = total_requests + 1
            /\ recorded' = Append(recorded, meas'.latency_ms)
       /\ meas'.raised =>
            /\ meas'.returned = Raised
            /\ latencies_ms' = latencies_ms
            /\ total_requests' = total_requests
            /\ sla_breaches' = sla_breaches
            /\ recorded' = recorded]_vars

\* The measured operation raised after samples had been recorded, and the
\* tracker is as it was before the call.
C29_Witness ==
  /\ meas.called /\ meas.raised
  /\ total_requests >= 1
  /\ total_requests = meas.total_before
  /\ latencies_ms = meas.window_before
  /\ sla_breaches = meas.breaches_before

(* ------------------------------- C30 ---------------------------------- *)
\* C30: every authentication operation records its duration in the latency
\* tracker: a completed login attempt has made the tracker's total_requests
\* grow by at least one.
C30_LoginIsTimed ==
  [][simple_last'.calls = simple_last.calls + 1
       => total_requests' >= total_requests + 1]_vars

(* ------------------------------- C31 ---------------------------------- *)
\* C31: record_clean_request increments total_requests by exactly 1 and
\* leaves threats_blocked, threats_flagged and every threat_vectors row
\* unchanged.
C31_CleanRequestCountsOnlyTotal ==
  [][calls'.clean = calls.clean + 1 =>
       /\ request_metrics'.total_requests
            = request_metrics.total_requests + 1
       /\ request_metrics'.threats_blocked = request_metrics.threats_blocked
       /\ request_metrics'.threats_flagged = request_metrics.threats_flagged
       /\ threat_vectors' = threat_vectors]_vars

\* A clean request was recorded after a blocked threat: the vector row and
\* the blocked counter are still there.
C31_Witness ==
  /\ met_last.op = "record_request"
  /\ calls.clean >= 1
  /\ request_metrics.threats_blocked >= 1
  /\ Len(threat_vectors) >= 1
  /\ request_metrics.total_requests > request_metrics.threats_blocked

(* ------------------------------- C32 ---------------------------------- *)
\* C32: brute-force detection never blocks a login: for an existing active
\* user a login with the correct password is accepted and returns a token
\* pair, however many failed attempts or brute_force_attempt events precede
\* it that day.
C32_DetectionNeverBlocksLogin ==
  \A w \in Workers :
    LoginDone(w) /\ PresentsValidCredentials(rq[w]) =>
      /\ rq[w].resp.status = HTTP_200_OK
      /\ rq[w].resp.access_token.type = "access"
      /\ rq[w].resp.refresh_token.type = "refresh"
      /\ rq[w].resp.access_token \in issued

(* ------------------------------- C36 ---------------------------------- *)
\* C36: in every reachable state of the aggregator, including those reached
\* when reset runs between the steps of a concurrent record_threat_detection,
\* 0 <= threats_blocked <= total_requests, so that the block rate of every
\* summary returned lies between 0 and 100.
C36_BlockedWithinTotal ==
  /\ 0 <= request_metrics.threats_blocked
  /\ request_metrics.threats_blocked <= request_metrics.total_requests
  /\ \A r \in MetReaders :
       sm_loc[r].returned =>
         /\ 0 <= sm_loc[r].summary.block_rate.percent
         /\ \/ sm_loc[r].summary.block_rate.percent < 100
            \/ sm_loc[r].summary.block_rate
                 = [percent |-> 100, hundredths |-> 0]

(* ------------------------------- C37 ---------------------------------- *)
\* C37: threats_flagged is 0 in every reachable state, and a
\* record_threat_detection call with blocked = false increases
\* total_requests and the count of its threat vector by 1 and changes
\* neither threats_blocked nor threats_flagged.
C37_FlaggedStaysZero ==
  /\ [](request_metrics.threats_flagged = 0)
  /\ [][\A t \in ThreatTypes :
          /\ calls'.by_type[t] = calls.by_type[t] + 1
          /\ calls'.blocked = calls.blocked
          => /\ request_metrics'.total_requests
                  = request_metrics.total_requests + 1
             /\ RowOf(threat_vectors', t) # 0
             /\ threat_vectors'[RowOf(threat_vectors', t)].count
                  = (IF RowOf(threat_vectors, t) = 0 THEN 0
                     ELSE threat_vectors[RowOf(threat_vectors, t)].count) + 1
             /\ request_metrics'.threats_blocked
                  = request_metrics.threats_blocked
             /\ request_metrics'.threats_flagged
                  = request_metrics.threats_flagged]_vars

\* Only threats that were not blocked have been recorded: requests and
\* vectors are counted, nothing is blocked or flagged.
C37_Witness ==
  /\ met_last.op = "record_threat"
  /\ calls.blocked = 0
  /\ request_metrics.total_requests >= 2
  /\ Len(threat_vectors) >= 1
  /\ request_metrics.threats_blocked = 0
  /\ request_metrics.threats_flagged = 0

(* ------------------------------- C38 ---------------------------------- *)
\* C38: for every non-empty window of length L the index floor(0.95 * L)
\* is strictly less than L, so the clamp to the last element is never
\* taken; and for every L from 1 to 20 that index is L - 1, so p95 is the
\* largest sample of the window.
C38_P95IndexInsideWindow ==
  /\ \A L \in 1..100 :
       /\ P95Index(L) < L
       /\ L <= 20 => P95Index(L) = L - 1
  /\ latencies_ms # <<>> =>
       LET L == Len(latencies_ms)
       IN /\ P95Index(L) < L
          /\ get_p95_latency_ms = sorted(latencies_ms)[P95Index(L) + 1]
          /\ L <= 20 =>
               /\ P95Index(L) = L - 1
               /\ \A i \in 1..L :
                    SampleLeq(latencies_ms[i], get_p95_latency_ms)
               /\ \E i \in 1..L : latencies_ms[i] = get_p95_latency_ms

\* A window of 20 samples whose largest is the oldest one, reported as p95.
C38_Witness ==
  /\ Len(latencies_ms) = 20
  /\ latencies_ms[1] = Ms(1000)
  /\ latencies_ms[20] = Ms(810)
  /\ get_p95_latency_ms = Ms(1000)

(* ------------------------------- C40 ---------------------------------- *)
\* C40: the taint flag is a process-wide latch. It starts false; a scan of
\* a text that is not blank sets it when the scanner judges the text
\* invalid; a blank or whitespace-only text is answered 'safe' without a
\* scan and without a change of the flag; no operation clears it; and once
\* it is set every get_sensitive_data call, by any caller and for known and
\* unknown names alike, is denied.
C40_TaintFlagIsALatch ==
  /\ [](srv_calls = 0 => ~IS_TAINTED)
  /\ [][srv_calls' # srv_calls =>
          /\ IS_TAINTED => IS_TAINTED'
          /\ srv_last'.op = "scan_content" =>
               IF \A i \in 1..Len(srv_last'.text) :
                    srv_last'.text[i] \in Whitespace
               THEN /\ srv_last'.reply = SafeReply
                    /\ ~srv_last'.scanned
                    /\ IS_TAINTED' = IS_TAINTED
               ELSE /\ srv_last'.scanned
                    /\ ~srv_last'.is_valid => IS_TAINTED'
                    /\ srv_last'.is_valid => IS_TAINTED' = IS_TAINTED
          /\ srv_last'.op = "get_sensitive_data" =>
               /\ IS_TAINTED' = IS_TAINTED
               /\ IS_TAINTED => srv_last'.reply = DeniedReply]_vars

\* After one caller's text was judged invalid, another caller asked for a
\* known name and was denied.
C40_Witness ==
  /\ IS_TAINTED
  /\ srv_calls = MaxServerCalls
  /\ srv_last.op = "get_sensitive_data"
  /\ srv_last.caller = "c2"
  /\ srv_last.name = "Alice"
  /\ srv_last.tainted_before
  /\ srv_last.reply = DeniedReply
====
